---- MODULE Spec2Model ----
(***************************************************************************)
(* Model of the time-series prediction service, src/ml-service/app.py:     *)
(* the TimeSeriesPredictor engine (prepare_data, train, predict), the      *)
(* conversion-rate derivation and the two request handlers /predict and    *)
(* /predict/batch.                                                         *)
(*                                                                         *)
(* Numbers are exact rationals <<num, den>> with den > 0 (Python floats    *)
(* without rounding error); <<0, 0>> stands for a JSON value that is not a *)
(* number (a string such as "n/a").  The fitted regressor is an external   *)
(* library object: its fit either succeeds or raises, and each one-step    *)
(* prediction returns a value drawn from RawOutputs.                       *)
(***************************************************************************)
EXTENDS Integers, Sequences, FiniteSets, TLC

VARIABLES
    TENSORFLOW_AVAILABLE, \* app.py:30/33, set once at import
    handler,              \* "idle" | "predict" | "predict_batch" | "unit"
    pc,                   \* position inside the running handler
    request,              \* the JSON body of the request being handled
    metric_data,          \* local: the resolved metric series
    predictor,            \* local: the TimeSeriesPredictor instance
    predictions,          \* local: the forecast values
    prediction_dates,     \* local: the formatted future dates
    results,              \* predict_batch local: metric -> list | null
    midx,                 \* predict_batch: number of metrics already iterated
    calls,                \* log of the engine calls made for this request
    response,             \* the HTTP response, or NoResponse
    ret,                  \* direct calls: what the last call returned
    trained_ok,           \* history: some train call on predictor returned True
    parked                \* the frames of the handlers that are not running now

vars == <<TENSORFLOW_AVAILABLE, handler, pc, request, metric_data, predictor,
          predictions, prediction_dates, results, midx, calls, response, ret,
          trained_ok, parked>>

----------------------------------------------------------------------------
(* Exact rational arithmetic.                                              *)

Abs(n) == IF n < 0 THEN -n ELSE n

RECURSIVE Gcd(_, _)
Gcd(a, b) == IF b = 0 THEN a ELSE Gcd(b, a % b)

\* The rational n/d in lowest terms, d # 0.
Rat(n, d) ==
    LET g == Gcd(Abs(n), Abs(d))
        s == IF d < 0 THEN -1 ELSE 1
    IN  <<(s * n) \div g, (s * d) \div g>>

Num(n) == <<n, 1>>
Null == <<0, 0>>
IsNum(v) == v[2] # 0

RAdd(a, b) == Rat(a[1] * b[2] + b[1] * a[2], a[2] * b[2])
RSub(a, b) == Rat(a[1] * b[2] - b[1] * a[2], a[2] * b[2])
RMul(a, b) == Rat(a[1] * b[1], a[2] * b[2])
RDiv(a, b) == Rat(a[1] * b[2], a[2] * b[1])
RLess(a, b) == a[1] * b[2] < b[1] * a[2]
RLeq(a, b) == a[1] * b[2] <= b[1] * a[2]
RMax(a, b) == IF RLess(a, b) THEN b ELSE a
RMin(a, b) == IF RLess(b, a) THEN b ELSE a

RECURSIVE SeqMin(_)
SeqMin(s) == IF Len(s) = 1 THEN s[1] ELSE RMin(s[1], SeqMin(Tail(s)))

RECURSIVE SeqMax(_)
SeqMax(s) == IF Len(s) = 1 THEN s[1] ELSE RMax(s[1], SeqMax(Tail(s)))

AllNum(s) == \A i \in 1..Len(s) : IsNum(s[i])

\* Python's s[-k:] : the last k elements, or all of s when it is shorter.
LastK(s, k) == SubSeq(s, IF Len(s) > k THEN Len(s) - k + 1 ELSE 1, Len(s))

----------------------------------------------------------------------------
(* MinMaxScaler(feature_range=(0, 1)).  A zero data range is handled as 1, *)
(* so a constant series is shifted, never divided by zero.                 *)

NewScaler == [fitted |-> FALSE, min |-> Num(0), max |-> Num(0)]

ScalerRange(sc) ==
    IF sc.max = sc.min THEN Num(1) ELSE RSub(sc.max, sc.min)

ScalerFit(data) == [fitted |-> TRUE, min |-> SeqMin(data), max |-> SeqMax(data)]

ScalerTransform(sc, data) ==
    [i \in 1..Len(data) |-> RDiv(RSub(data[i], sc.min), ScalerRange(sc))]

\* ScalerInverse without the offset.
ScalerInverseNoOffset(sc, data) ==
    [i \in 1..Len(data) |-> RMul(data[i], ScalerRange(sc))]

ScalerInverse(sc, data) ==
    [i \in 1..Len(data) |-> RAdd(RMul(data[i], ScalerRange(sc)), sc.min)]

----------------------------------------------------------------------------
(* TimeSeriesPredictor                                                     *)

sequence_length == 7

NoModel == [kind |-> "None", fitted |-> FALSE]

\* __init__
NewPredictor(model_type) ==
    [model_type |-> model_type, scaler |-> NewScaler, model |-> NoModel]

\* Windows with the target taken one position early (the last input value).
WindowsTargetEarly(scaled, lookback) ==
    [j \in 1..(Len(scaled) - lookback) |->
        [x |-> SubSeq(scaled, j, j + lookback - 1),
         y |-> scaled[j + lookback - 1]]]

\* The loop of prepare_data: one (input, target) pair per i in
\* range(lookback, len(scaled)); 0-based i is position i+1 here.
Windows(scaled, lookback) ==
    [j \in 1..(Len(scaled) - lookback) |->
        [x |-> SubSeq(scaled, j, j + lookback - 1), y |-> scaled[j + lookback]]]

\* prepare_data(self, data, lookback): what it raises (or "" when it
\* returns), the scaler it leaves behind, and the pairs it returns.
prepare_data(self, data, lookback) ==
    IF Len(data) < lookback + 1
    THEN [raised |-> "InsufficientData", scaler |-> self.scaler,
          XY |-> <<>>, lib |-> <<>>]
    ELSE IF ~AllNum(data)
    THEN \* fit_transform resets the scaler, then rejects the data
         [raised |-> "ValueError", scaler |-> NewScaler,
          XY |-> <<>>, lib |-> <<"fit_transform">>]
    ELSE LET sc == ScalerFit(data)
         IN  [raised |-> "", scaler |-> sc,
              XY |-> Windows(ScalerTransform(sc, data), lookback),
              lib |-> <<"fit_transform">>]

\* build_model building the recurrent network whatever the process has.
BuildRecurrentAlways(tf) == "recurrent"

\* build_model: the regressor the process can build.
build_model(tf) == IF tf THEN "recurrent" ELSE "linear"

\* The except clause of train: "except Exception" catches whatever the body
\* raised, so nothing is left to propagate.
TrainExcept(raised) == ""

\* train(self, data); fit is the outcome of the library's fit: "ok" | "raise".
\* Gives what train raises, the boolean it returns, the instance as it
\* leaves it, the library calls it made and the pairs it trained on.
train(self, data, tf, fit) ==
    LET pd == prepare_data(self, data, sequence_length)
    IN  IF pd.raised # ""
        THEN [raised |-> TrainExcept(pd.raised), ret |-> FALSE,
              self |-> [self EXCEPT !.scaler = pd.scaler],
              lib |-> pd.lib, XY |-> <<>>]
        ELSE \* self.model is assigned before fit is called
             [raised |-> TrainExcept(IF fit = "ok" THEN "" ELSE "FitError"),
              ret |-> (fit = "ok"),
              self |-> [self EXCEPT !.scaler = pd.scaler,
                           !.model = [kind |-> build_model(tf),
                                      fitted |-> (fit = "ok")]],
              lib |-> pd.lib \o <<"fit">>, XY |-> pd.XY]

\* LoopInput with a window that never moves.
LoopInputFrozen(scaled, outs, k) == LastK(scaled, sequence_length)

\* Clamp without the max.
ClampNone(p) == p

\* max(0, float(p)) of predict
Clamp(p) == IF RLess(Num(0), p) THEN p ELSE Num(0)

\* The regressor input of iteration k of predict's loop:
\* current_sequence[-sequence_length:], where current_sequence is the scaled
\* last sequence with the k-1 earlier predictions appended.
LoopInput(scaled, outs, k) ==
    LastK(scaled \o SubSeq(outs, 1, k - 1), sequence_length)

\* ForecastScaler fitted anew on the last sequence.
ForecastScalerRefit(self, last_sequence) == ScalerFit(last_sequence)

\* The scaler predict transforms and inverts with: self.scaler as it is.
ForecastScaler(self, last_sequence) == self.scaler

\* predict(self, data, days); outs are the values model.predict returns,
\* one per iteration.  Gives what predict raises (or ""), the list it
\* returns, the library calls it made and the regressor inputs it built.
predict(self, data, days, tf, outs) ==
    LET last_sequence == LastK(data, sequence_length)
        scaler == ForecastScaler(self, last_sequence)
        scaled == ScalerTransform(scaler, last_sequence)
        preds == SubSeq(outs, 1, days)
        none == [raised |-> "", val |-> <<>>, lib |-> <<>>, inputs |-> <<>>]
    IN  IF self.model.kind = "None"
        THEN [none EXCEPT !.raised = "UntrainedModel"]
        ELSE IF ~self.scaler.fitted
        THEN [none EXCEPT !.raised = "NotFitted", !.lib = <<"transform">>]
        ELSE IF Len(last_sequence) = 0 \/ ~AllNum(last_sequence)
        THEN [none EXCEPT !.raised = "ValueError", !.lib = <<"transform">>]
        ELSE IF days >= 1 /\ tf /\ Len(scaled) # sequence_length
        THEN \* reshape(1, sequence_length, 1) fails before model.predict
             [none EXCEPT !.raised = "ValueError", !.lib = <<"transform">>]
        ELSE IF days >= 1 /\ ~tf /\ ~self.model.fitted
        THEN [none EXCEPT !.raised = "NotFitted",
                          !.lib = <<"transform", "model.predict">>,
                          !.inputs = <<LoopInput(scaled, outs, 1)>>]
        ELSE IF days >= 1 /\ ~tf /\ Len(scaled) # sequence_length
        THEN \* the fitted linear model rejects a row of the wrong width
             [none EXCEPT !.raised = "ValueError",
                          !.lib = <<"transform", "model.predict">>,
                          !.inputs = <<LoopInput(scaled, outs, 1)>>]
        ELSE LET loop == [k \in 1..days |-> "model.predict"]
                 ins == [k \in 1..days |-> LoopInput(scaled, outs, k)]
             IN  IF days < 1
                 THEN \* inverse_transform rejects an empty array
                      [none EXCEPT !.raised = "ValueError",
                                   !.lib = <<"transform", "inverse_transform">>]
                 ELSE [raised |-> "",
                       val |-> [k \in 1..days |->
                                  Clamp(ScalerInverse(scaler, preds)[k])],
                       lib |-> <<"transform">> \o loop \o <<"inverse_transform">>,
                       inputs |-> ins]

----------------------------------------------------------------------------
(* calculate_conversion_rate                                               *)

\* One turn of the zip loop: uv / pv if pv > 0 else 0.  Comparing or
\* dividing a value that is not a number raises TypeError.
RateRaises(pv, uv) == ~IsNum(pv) \/ (RLess(Num(0), pv) /\ ~IsNum(uv))

\* Rate with the test pv != 0 in place of pv > 0.
RateNonZero(pv, uv) == IF pv # Num(0) THEN RDiv(uv, pv) ELSE Num(0)

Rate(pv, uv) == IF RLess(Num(0), pv) THEN RDiv(uv, pv) ELSE Num(0)

calculate_conversion_rate(pv_data, uv_data) ==
    IF Len(pv_data) # Len(uv_data)
    THEN [raised |-> "LengthMismatch", val |-> <<>>]
    ELSE IF \E i \in 1..Len(pv_data) : RateRaises(pv_data[i], uv_data[i])
    THEN [raised |-> "TypeError", val |-> <<>>]
    ELSE [raised |-> "",
          val |-> [i \in 1..Len(pv_data) |-> Rate(pv_data[i], uv_data[i])]]
----------------------------------------------------------------------------
(* Dates: strings are sequences of one-character strings, a parsed date is *)
(* <<year, month, day>> (the handlers use only the date part of the        *)
(* datetime they parse).                                                   *)

Digits == <<"0", "1", "2", "3", "4", "5", "6", "7", "8", "9">>

IsDigit(c) == \E i \in 1..10 : Digits[i] = c

DigitVal(c) == (CHOOSE i \in 1..10 : Digits[i] = c) - 1

RECURSIVE NumVal(_)
NumVal(cs) ==
    IF cs = <<>> THEN 0
    ELSE 10 * NumVal(SubSeq(cs, 1, Len(cs) - 1)) + DigitVal(cs[Len(cs)])

\* The end (exclusive) of the run of digits that starts at position pos.
RECURSIVE DigitsEnd(_, _)
DigitsEnd(str, pos) ==
    IF pos <= Len(str) /\ IsDigit(str[pos]) THEN DigitsEnd(str, pos + 1) ELSE pos

IsLeap(y) == (y % 4 = 0 /\ y % 100 # 0) \/ y % 400 = 0

DaysInMonth(y, m) ==
    IF m = 2 THEN (IF IsLeap(y) THEN 29 ELSE 28)
    ELSE IF m \in {4, 6, 9, 11} THEN 30 ELSE 31

\* The five formats of date_formats, in order, as directive and literal
\* tokens.
date_formats ==
    << <<"%Y", "-", "%m", "-", "%d">>,
       <<"%Y", "-", "%m", "-", "%d", "T", "%H", ":", "%M", ":", "%S">>,
       <<"%Y", "-", "%m", "-", "%d", "T", "%H", ":", "%M", ":", "%S", ".", "%f">>,
       <<"%Y", "-", "%m", "-", "%d", "T", "%H", ":", "%M", ":", "%S", ".", "%f",
         "Z">>,
       <<"%Y", "-", "%m", "-", "%d", " ", "%H", ":", "%M", ":", "%S">> >>

IsDirective(tok) == tok \in {"%Y", "%m", "%d", "%H", "%M", "%S", "%f"}

\* Whether a run of digits is a value of the directive: its width and range.
FieldOk(tok, cs) ==
    LET n == Len(cs)
        v == NumVal(cs)
    IN  CASE tok = "%Y" -> n = 4
          [] tok = "%m" -> n \in 1..2 /\ v \in 1..12
          [] tok = "%d" -> n \in 1..2 /\ v \in 1..31
          [] tok = "%H" -> n \in 1..2 /\ v \in 0..23
          [] tok = "%M" -> n \in 1..2 /\ v \in 0..59
          [] tok = "%S" -> n \in 1..2 /\ v \in 0..61
          [] tok = "%f" -> n \in 1..6

\* The end (exclusive) of the run of spaces that starts at position pos.
RECURSIVE SpacesEnd(_, _)
SpacesEnd(str, pos) ==
    IF pos <= Len(str) /\ str[pos] = " " THEN SpacesEnd(str, pos + 1) ELSE pos

\* strptime compares literal characters without regard to case.
SameLetter(c, lit) ==
    \/ c = lit
    \/ (lit = "T" /\ c = "t")
    \/ (lit = "Z" /\ c = "z")

\* Match str from position pos against the tokens of fmt from index fi on;
\* acc collects the fields.  Every directive is followed by a literal that
\* is no digit (or ends the format), so a field is the whole run of digits;
\* %d also takes a space and one digit 1-9, and a space of the format takes
\* one or more spaces.
RECURSIVE Match(_, _, _, _, _)
Match(str, pos, fmt, fi, acc) ==
    IF fi > Len(fmt)
    THEN [ok |-> pos = Len(str) + 1, fields |-> acc]
    ELSE IF IsDirective(fmt[fi])
    THEN LET sp == /\ fmt[fi] = "%d"
                   /\ pos + 1 <= Len(str)
                   /\ str[pos] = " "
             from == IF sp THEN pos + 1 ELSE pos
             e == DigitsEnd(str, from)
             cs == SubSeq(str, from, e - 1)
         IN  IF FieldOk(fmt[fi], cs) /\ (sp => (Len(cs) = 1 /\ cs[1] # "0"))
             THEN Match(str, e, fmt, fi + 1, acc @@ (fmt[fi] :> NumVal(cs)))
             ELSE [ok |-> FALSE, fields |-> acc]
    ELSE IF fmt[fi] = " "
    THEN IF SpacesEnd(str, pos) > pos
         THEN Match(str, SpacesEnd(str, pos), fmt, fi + 1, acc)
         ELSE [ok |-> FALSE, fields |-> acc]
    ELSE IF pos <= Len(str) /\ SameLetter(str[pos], fmt[fi])
    THEN Match(str, pos + 1, fmt, fi + 1, acc)
    ELSE [ok |-> FALSE, fields |-> acc]

NoFields == [t \in {} |-> 0]

\* datetime.strptime(str, fmt): the date, or ok = FALSE for ValueError (no
\* match, or a field combination datetime rejects).
strptime(str, fmt) ==
    LET m == Match(str, 1, fmt, 1, NoFields)
        f == m.fields
    IN  IF /\ m.ok
           /\ f["%Y"] >= 1
           /\ f["%d"] <= DaysInMonth(f["%Y"], f["%m"])
           /\ ("%S" \in DOMAIN f => f["%S"] <= 59)
        THEN [ok |-> TRUE, date |-> <<f["%Y"], f["%m"], f["%d"]>>]
        ELSE [ok |-> FALSE, date |-> <<0, 0, 0>>]

\* str.split(sep)[0]: what precedes the first sep, or all of str.
RECURSIVE BeforeFirst(_, _)
BeforeFirst(str, sep) ==
    IF str = <<>> \/ Head(str) = sep THEN <<>>
    ELSE <<Head(str)>> \o BeforeFirst(Tail(str), sep)

\* The first format of date_formats that parses, tried in order from i.
RECURSIVE FirstFormat(_, _)
FirstFormat(str, i) ==
    IF i > Len(date_formats) THEN [ok |-> FALSE, date |-> <<0, 0, 0>>]
    ELSE IF strptime(str, date_formats[i]).ok THEN strptime(str, date_formats[i])
    ELSE FirstFormat(str, i + 1)

\* ParseLastDate without the retry on the date part.
ParseLastDateNoRetry(last_date_str) ==
    LET first == FirstFormat(last_date_str, 1)
    IN  IF first.ok THEN [raised |-> "", date |-> first.date]
        ELSE [raised |-> "DateParse", date |-> <<0, 0, 0>>]

\* The resolution of last_date from last_date_str: the format loop, then
\* the date part before the first "T" or space; raised = "DateParse" when
\* both fail.
ParseLastDate(last_date_str) ==
    LET first == FirstFormat(last_date_str, 1)
        date_part == BeforeFirst(BeforeFirst(last_date_str, "T"), " ")
        second == strptime(date_part, date_formats[1])
    IN  IF first.ok THEN [raised |-> "", date |-> first.date]
        ELSE IF second.ok THEN [raised |-> "", date |-> second.date]
        ELSE [raised |-> "DateParse", date |-> <<0, 0, 0>>]

\* date + timedelta(days=1)
NextDay(d) ==
    IF d[3] < DaysInMonth(d[1], d[2]) THEN <<d[1], d[2], d[3] + 1>>
    ELSE IF d[2] < 12 THEN <<d[1], d[2] + 1, 1>>
    ELSE <<d[1] + 1, 1, 1>>

\* date + timedelta(days=k), k >= 0
RECURSIVE AddDays(_, _)
AddDays(d, k) == IF k = 0 THEN d ELSE AddDays(NextDay(d), k - 1)

\* The decimal digits of n, zero-padded to width w.
RECURSIVE Pad(_, _)
Pad(n, w) == IF w = 0 THEN <<>> ELSE Pad(n \div 10, w - 1) \o <<Digits[(n % 10) + 1]>>

\* date.strftime('%Y-%m-%d')
strftime(d) == Pad(d[1], 4) \o <<"-">> \o Pad(d[2], 2) \o <<"-">> \o Pad(d[3], 2)

\* PredictionDates starting at last_date itself (timedelta(days=i)).
PredictionDatesFromLast(last_date, days) ==
    [i \in 1..days |-> strftime(AddDays(last_date, i - 1))]

\* [(last_date + timedelta(days=i+1)).strftime('%Y-%m-%d') for i in range(days)]
PredictionDates(last_date, days) ==
    [i \in 1..days |-> strftime(AddDays(last_date, i))]

----------------------------------------------------------------------------
(* Formatting of a forecast value.                                         *)

\* floor(a / b) for b > 0
FloorDiv(a, b) == a \div b

\* round(r) to an integer, ties to the even neighbour
RoundHalfEven(r) ==
    LET fl == FloorDiv(r[1], r[2])
        twice == 2 * (r[1] - fl * r[2])    \* 2 * (r - fl) * den
    IN  IF twice < r[2] THEN fl
        ELSE IF twice > r[2] THEN fl + 1
        ELSE IF fl % 2 = 0 THEN fl ELSE fl + 1

\* format_prediction_value with four decimals for every metric.
FormatFourDecimals(value, metric_type) ==
    Rat(RoundHalfEven(RMul(value, Num(10000))), 10000)

\* format_prediction_value / format_batch_value
format_prediction_value(value, metric_type) ==
    IF metric_type \in {"pv", "uv"}
    THEN Num(RoundHalfEven(value))
    ELSE Rat(RoundHalfEven(RMul(value, Num(10000))), 10000)

----------------------------------------------------------------------------
(* Inputs.                                                                 *)

MaxLen == 9       \* longest series handed to the engine directly
MaxDays == 2      \* largest forecast horizon
MaxRateLen == 2   \* longest pv / uv list handed to the derivation directly

ModelTypes == {"lstm", "gru"}

\* What one call of the regressor's predict may return (normalized scale).
RawOutputs == {Rat(-1, 1), Rat(3, 2)}

OutSeqs(days) == [1..days -> RawOutputs]

\* Daily values shaped like the sample data of test_predict:
\* base + i * step + (i % 3) * bump for i in range(n).
GenSeries(n, base, step, bump) ==
    [i \in 1..n |-> Num(base + (i - 1) * step + ((i - 1) % 3) * bump)]

\* The same series with its second value replaced by a value that is not a
\* number.
WithNull(s) == [i \in 1..Len(s) |-> IF i = 2 THEN Null ELSE s[i]]

UnitLens == {0} \cup (5..MaxLen)

UnitSeries ==
    { GenSeries(n, b, st, bu) : n \in UnitLens, b \in {-3, 2}, st \in {0, 1},
                                bu \in {0, 2} }
    \cup { WithNull(GenSeries(n, 2, 1, 0)) : n \in UnitLens }

RateValues == {Null, Num(-1), Num(0), Num(1), Num(2)}

RateSeries == UNION { [1..n -> RateValues] : n \in 0..MaxRateLen }

MinRecords == 14   \* the record count /predict insists on
ShortLen == 5      \* a record count too small to train on
MaxMetrics == 2    \* longest metrics list of a batch request

MetricNames == {"pv", "uv", "conversion_rate", "clicks"}

FitOutcomes == {"ok", "raise"}

\* dict.get(key, default)
Get(item, key, default) == IF key \in DOMAIN item THEN item[key] ELSE default

\* The date of the first record of every generated list.
FirstDate == <<2024, 2, 16>>

\* The date string of the last of n records, in one of the shapes a caller
\* may send; "missing" is a record without a date key.
LastDateShapes == {"plain", "isoZ", "other", "missing"}

DateString(date, shape) ==
    CASE shape = "plain" -> strftime(date)
      [] shape = "isoZ" ->
            strftime(date) \o <<"T", "1", "0", ":", "3", "0", ":", "0", "0",
                                ".", "0", "0", "0", "Z">>
      [] shape = "other" -> <<"n", "/", "a">>

DateField(i, n, shape) ==
    IF i < n THEN ("date" :> strftime(AddDays(FirstDate, i - 1)))
    ELSE IF shape = "missing" THEN NoFields
    ELSE ("date" :> DateString(AddDays(FirstDate, i - 1), shape))

\* Record i (1-based) of a list of n records.
\*   "sample": like the records of test_predict, rising with a period of 3.
\*   "sparse": pv of -1, 0 or 1, uv present on odd days only.
\*   "nulls":  like sparse but the pv of the second record is not a number.
Profiles == {"sample", "sparse", "nulls"}

Record(profile, i, n, shape) ==
    DateField(i, n, shape) @@
    CASE profile = "sample" ->
            ("pv" :> Num(4 + (i - 1) + ((i - 1) % 3) * 2)) @@
            ("uv" :> Num(1 + ((i - 1) % 2))) @@
            ("clicks" :> Num(i % 2))
      [] profile = "sparse" ->
            ("pv" :> Num(((i - 1) % 3) - 1)) @@
            (IF i % 2 = 1 THEN ("uv" :> Num(1)) ELSE NoFields)
      [] profile = "nulls" ->
            ("pv" :> (IF i = 2 THEN Null ELSE Num(((i - 1) % 3) - 1))) @@
            ("uv" :> Num(1))

HistoricalData(profile, n, shape) ==
    [i \in 1..n |-> Record(profile, i, n, shape)]

RecordCounts == {0, ShortLen, MinRecords - 1, MinRecords}

\* Every profile with a plain last date, and the sample profile with every
\* shape of last date.
Histories ==
    { HistoricalData(p, n, "plain") : p \in Profiles, n \in RecordCounts }
    \cup { HistoricalData("sample", n, sh) :
              n \in RecordCounts, sh \in LastDateShapes }

PredictRequests ==
    { [endpoint |-> "predict", metricType |-> m, modelType |-> mt,
       days |-> d, historicalData |-> h] :
        m \in MetricNames, mt \in ModelTypes, d \in 0..MaxDays, h \in Histories }

MetricLists == UNION { [1..k -> MetricNames] : k \in 0..MaxMetrics }

BatchRequests ==
    { [endpoint |-> "predict_batch", metrics |-> ms, modelType |-> mt,
       days |-> d, historicalData |-> h] :
        ms \in MetricLists, mt \in ModelTypes, d \in 0..MaxDays, h \in Histories }

----------------------------------------------------------------------------
(* Values of the variables a specification does not use.                   *)

NoRequest == [endpoint |-> "none"]
NoResponse == [status |-> 0]
NoRet == [op |-> "none"]

MaxThreads == 2   \* requests the server handles at the same time

\* The frame of a handler that is not handling a request.
IdleFrame ==
    [handler |-> "idle", pc |-> "idle", request |-> NoRequest,
     metric_data |-> <<>>, predictor |-> NewPredictor("lstm"),
     predictions |-> <<>>, prediction_dates |-> <<>>, results |-> <<>>,
     midx |-> 0, calls |-> <<>>, response |-> NoResponse,
     trained_ok |-> FALSE]

ServiceIdle ==
    /\ parked = [i \in 1..(MaxThreads - 1) |-> IdleFrame]
    /\ request = NoRequest
    /\ metric_data = <<>>
    /\ predictions = <<>>
    /\ prediction_dates = <<>>
    /\ results = <<>>
    /\ midx = 0
    /\ calls = <<>>
    /\ response = NoResponse

ServiceUnchanged ==
    UNCHANGED <<TENSORFLOW_AVAILABLE, handler, request, metric_data,
                predictions, prediction_dates, results, midx, calls, response,
                parked>>

UnitCall ==
    /\ pc' = "returned"
    /\ ServiceUnchanged

----------------------------------------------------------------------------
(* SpecUnit: the engine's methods and calculate_conversion_rate called     *)
(* directly, in any order, on one instance at a time.  A call is made at   *)
(* pc = "ready" and leaves what it returned in ret at pc = "returned".     *)

InitUnit ==
    /\ TENSORFLOW_AVAILABLE \in BOOLEAN
    /\ handler = "unit"
    /\ pc = "ready"
    /\ ServiceIdle
    /\ \E mt \in ModelTypes : predictor = NewPredictor(mt)
    /\ trained_ok = FALSE
    /\ ret = NoRet

\* TimeSeriesPredictor(model_type)
UnitNew ==
    /\ pc = "ready"
    /\ \E mt \in ModelTypes : predictor' = NewPredictor(mt)
    /\ trained_ok' = FALSE
    /\ ret' = [op |-> "new"]
    /\ UnitCall

\* predictor.prepare_data(data, 7)
UnitPrepareData ==
    /\ pc = "ready"
    /\ \E data \in UnitSeries :
        LET r == prepare_data(predictor, data, sequence_length)
        IN  /\ predictor' = [predictor EXCEPT !.scaler = r.scaler]
            /\ ret' = [op |-> "prepare_data", data |-> data,
                       raised |-> r.raised, XY |-> r.XY]
            /\ UNCHANGED trained_ok
            /\ UnitCall

\* predictor.train(data) for a series of the given set
UnitTrainOn(series) ==
    /\ pc = "ready"
    /\ \E data \in series, fit \in FitOutcomes :
        LET r == train(predictor, data, TENSORFLOW_AVAILABLE, fit)
        IN  /\ predictor' = r.self
            /\ trained_ok' = (trained_ok \/ (r.raised = "" /\ r.ret))
            /\ ret' = [op |-> "train", data |-> data, raised |-> r.raised,
                       val |-> r.ret, lib |-> r.lib, XY |-> r.XY]
            /\ UnitCall

UnitTrain == UnitTrainOn(UnitSeries)

\* predictor.predict(data, days) for a series of the given set and up to
\* maxdays days; outs is kept with what a successful call returned.
UnitPredictOn(series, maxdays) ==
    /\ pc = "ready"
    /\ \E data \in series, days \in 0..maxdays :
        \E outs \in OutSeqs(days) :
            LET r == predict(predictor, data, days, TENSORFLOW_AVAILABLE, outs)
            IN  /\ ret' = [op |-> "predict", data |-> data, days |-> days,
                           raised |-> r.raised, val |-> r.val, lib |-> r.lib,
                           inputs |-> r.inputs,
                           outs |-> IF r.raised = "" THEN outs ELSE <<>>]
                /\ UNCHANGED <<predictor, trained_ok>>
                /\ UnitCall

UnitPredict == UnitPredictOn(UnitSeries, MaxDays)

\* calculate_conversion_rate(pv_data, uv_data)
UnitConversionRate ==
    /\ pc = "ready"
    /\ \E pv \in RateSeries, uv \in RateSeries :
        LET r == calculate_conversion_rate(pv, uv)
        IN  /\ ret' = [op |-> "conversion_rate", pv |-> pv, uv |-> uv,
                       raised |-> r.raised, val |-> r.val]
            /\ UNCHANGED <<predictor, trained_ok>>
            /\ UnitCall

\* The caller takes the result and is ready for the next call.
UnitReturn ==
    /\ pc = "returned"
    /\ pc' = "ready"
    /\ ret' = NoRet
    /\ UNCHANGED <<predictor, trained_ok>>
    /\ ServiceUnchanged

NextUnit ==
    \/ UnitReturn
    \/ UnitNew
    \/ UnitPrepareData
    \/ UnitTrain
    \/ UnitPredict

SpecUnit == InitUnit /\ [][NextUnit]_vars

(* SpecRate: calculate_conversion_rate called directly on any two lists.  *)

InitRate ==
    /\ TENSORFLOW_AVAILABLE \in BOOLEAN
    /\ handler = "unit"
    /\ pc = "ready"
    /\ ServiceIdle
    /\ predictor = NewPredictor("lstm")
    /\ trained_ok = FALSE
    /\ ret = NoRet

NextRate ==
    \/ UnitReturn
    \/ UnitConversionRate

SpecRate == InitRate /\ [][NextRate]_vars

----------------------------------------------------------------------------
(* Properties of the engine and the derivation called directly.         *)

\* C7: train never raises and returns a boolean, and whenever it returns
\* false on an engine no train call has succeeded on, the engine is still
\* Untrained (its model is None, so predict raises the untrained error).
C7_TrainFailureLeavesUntrained ==
    (ret.op = "train")
        => /\ ret.raised = ""
           /\ ret.val \in BOOLEAN
           /\ (~ret.val /\ ~trained_ok) => predictor.model = NoModel

\* C8: predict on an engine on which no train call has succeeded raises the
\* untrained-model error before any scaler or regressor call is made.
C8_UntrainedPredictFails ==
    (ret.op = "predict" /\ ~trained_ok)
        => /\ ret.raised = "UntrainedModel"
           /\ ret.lib = <<>>

\* The min-max normalization of a numeric series by its own minimum and
\* maximum.
Normalized(data) == ScalerTransform(ScalerFit(data), data)

\* C9: prepare_data with lookback 7 on a series of length L raises the
\* insufficient-data error exactly when L < 8; on a numeric series with
\* L >= 8 it returns exactly L - 7 pairs, the j-th (j = 0..L-8) made of the
\* normalized values at positions j..j+6 and the one at position j+7.
C9_WindowsAreSlidingPairs ==
    (ret.op = "prepare_data")
        => LET L == Len(ret.data)
           IN  /\ (ret.raised = "InsufficientData") <=> (L < 8)
               /\ (L >= 8 /\ AllNum(ret.data))
                    => /\ ret.raised = ""
                       /\ Len(ret.XY) = L - 7
                       /\ \A j \in 0..(L - 8) :
                            /\ Len(ret.XY[j + 1].x) = 7
                            /\ \A k \in 1..7 :
                                 ret.XY[j + 1].x[k] = Normalized(ret.data)[j + k]
                            /\ ret.XY[j + 1].y = Normalized(ret.data)[j + 8]

\* A 9-value series that is not constant was windowed into two pairs.
C9_Witness ==
    /\ ret.op = "prepare_data"
    /\ Len(ret.data) = 9
    /\ ret.raised = ""
    /\ Len(ret.XY) = 2
    /\ ret.XY[1].y # ret.XY[2].y
    /\ ret.XY[1].x # ret.XY[2].x

\* A 7-value series was rejected.
C9_WitnessShort ==
    /\ ret.op = "prepare_data"
    /\ Len(ret.data) = 7
    /\ ret.raised = "InsufficientData"

\* C10: on numeric pv and uv lists of equal length n the derivation returns
\* n values, the i-th being uv[i]/pv[i] when pv[i] > 0 and 0 otherwise; on
\* lists of unequal length it raises the length-mismatch error and returns
\* nothing.
C10_ConversionRate ==
    (ret.op = "conversion_rate")
        => /\ (Len(ret.pv) # Len(ret.uv))
                => (ret.raised = "LengthMismatch" /\ ret.val = <<>>)
           /\ (Len(ret.pv) = Len(ret.uv) /\ AllNum(ret.pv) /\ AllNum(ret.uv))
                => /\ ret.raised = ""
                   /\ Len(ret.val) = Len(ret.pv)
                   /\ \A i \in 1..Len(ret.pv) :
                        IF ret.pv[i][1] > 0
                        THEN RMul(ret.val[i], ret.pv[i]) = ret.uv[i]
                        ELSE ret.val[i] = Num(0)

\* pv = [0, 2] and uv = [2, 1] gave [0, 1/2]: a day with pv = 0 and uv > 0
\* and a day with a proper ratio.
C10_Witness ==
    /\ ret.op = "conversion_rate"
    /\ ret.pv = <<Num(0), Num(2)>>
    /\ ret.uv = <<Num(2), Num(1)>>
    /\ ret.raised = ""
    /\ ret.val = <<Num(0), Rat(1, 2)>>
----------------------------------------------------------------------------
(* Spec: the service handling one request at a time.  Each handler runs    *)
(* stage by stage; pc names the stage to run next.                         *)

JsonNull == [null |-> TRUE, list |-> <<>>]
JsonList(l) == [null |-> FALSE, list |-> l]

\* FieldList that leaves out the records without the field.
FieldListPresent(historical_data, key) ==
    LET HasKey(item) == key \in DOMAIN item
        present == SelectSeq(historical_data, HasKey)
    IN  [i \in 1..Len(present) |-> present[i][key]]

\* [item.get(key, 0) for item in historical_data]
FieldList(historical_data, key) ==
    [i \in 1..Len(historical_data) |-> Get(historical_data[i], key, Num(0))]

\* The extraction of the metric series from the records: the derived
\* conversion rate, or the named field with 0 for a record without it.
MetricSeries(metric, historical_data) ==
    IF metric = "conversion_rate"
    THEN calculate_conversion_rate(FieldList(historical_data, "pv"),
                                   FieldList(historical_data, "uv"))
    ELSE [raised |-> "", val |-> FieldList(historical_data, metric)]

\* historical_data[-1]['date'] resolved to a date, then the future dates.
FutureDates(historical_data, days) ==
    LET last == historical_data[Len(historical_data)]
    IN  IF "date" \notin DOMAIN last
        THEN [raised |-> "KeyError", val |-> <<>>]
        ELSE LET p == ParseLastDate(last["date"])
             IN  IF p.raised # "" THEN [raised |-> p.raised, val |-> <<>>]
                 ELSE [raised |-> "", val |-> PredictionDates(p.date, days)]

Min(a, b) == IF a < b THEN a ELSE b

\* [{'date': date, 'value': format(pred, metric)}
\*     for date, pred in zip(prediction_dates, predictions)]
PredictionList(dates, preds, metric) ==
    [k \in 1..Min(Len(dates), Len(preds)) |->
        [date |-> dates[k], value |-> format_prediction_value(preds[k], metric)]]

\* What the train and predict stages add to the log of engine calls.
\* at is the loop position (0 in /predict), fit and outs are what the
\* library did when it was reached, lib the library calls made.
TrainCall(r, fit) ==
    [op |-> "train", at |-> midx, ok |-> r.ret,
     fit |-> IF Len(r.lib) = 2 THEN fit ELSE "none", outs |-> <<>>,
     lib |-> r.lib]

PredictCall(r, outs) ==
    [op |-> "predict", at |-> midx, ok |-> (r.raised = ""), fit |-> "none",
     outs |-> IF r.raised = "" THEN outs ELSE <<>>, lib |-> r.lib]

CreateCall ==
    [op |-> "create", at |-> midx, ok |-> TRUE, fit |-> "none", outs |-> <<>>,
     lib |-> <<>>]

Init ==
    /\ TENSORFLOW_AVAILABLE \in BOOLEAN
    /\ handler = "idle"
    /\ pc = "idle"
    /\ ServiceIdle
    /\ predictor = NewPredictor("lstm")
    /\ trained_ok = FALSE
    /\ ret = NoRet

Locals == <<metric_data, predictor, predictions, prediction_dates, results, midx>>

\* return jsonify(body), status
Respond(status, body) ==
    /\ response' = [status |-> status, body |-> body]
    /\ pc' = "done"

\* The handler's outer "except Exception": HTTP 500 with str(e).
Respond500(err) == Respond(500, [success |-> FALSE, error |-> err])

Frame == UNCHANGED <<TENSORFLOW_AVAILABLE, handler, request, ret, parked>>

(* POST /predict *)

ReceivePredict ==
    /\ pc = "idle"
    /\ \E req \in PredictRequests : request' = req
    /\ handler' = "predict"
    /\ pc' = "validate"
    /\ UNCHANGED <<TENSORFLOW_AVAILABLE, ret, Locals, trained_ok, calls, response,
                   parked>>

\* PredictValidate without the test for fewer than 14 records.
PredictValidateEmptyOnly ==
    /\ handler = "predict" /\ pc = "validate"
    /\ IF Len(request.historicalData) = 0
       THEN Respond(400, [success |-> FALSE, error |-> "EmptyHistory"])
       ELSE pc' = "resolve" /\ UNCHANGED response
    /\ UNCHANGED <<Locals, trained_ok, calls>>
    /\ Frame

\* app.py:205-215
PredictValidate ==
    /\ handler = "predict" /\ pc = "validate"
    /\ IF Len(request.historicalData) = 0
       THEN Respond(400, [success |-> FALSE, error |-> "EmptyHistory"])
       ELSE IF Len(request.historicalData) < MinRecords
       THEN Respond(400, [success |-> FALSE, error |-> "InsufficientData"])
       ELSE pc' = "resolve" /\ UNCHANGED response
    /\ UNCHANGED <<Locals, trained_ok, calls>>
    /\ Frame

\* app.py:217-224
PredictResolve ==
    /\ handler = "predict" /\ pc = "resolve"
    /\ LET r == MetricSeries(request.metricType, request.historicalData)
       IN  IF r.raised # ""
           THEN Respond500(r.raised) /\ UNCHANGED metric_data
           ELSE metric_data' = r.val /\ pc' = "create" /\ UNCHANGED response
    /\ UNCHANGED <<predictor, predictions, prediction_dates, results, midx,
                   trained_ok, calls>>
    /\ Frame

\* app.py:227
PredictCreate ==
    /\ handler = "predict" /\ pc = "create"
    /\ predictor' = NewPredictor(request.modelType)
    /\ trained_ok' = FALSE
    /\ calls' = Append(calls, CreateCall)
    /\ pc' = "train"
    /\ UNCHANGED <<metric_data, predictions, prediction_dates, results, midx,
                   response>>
    /\ Frame

\* PredictTrain going on to the forecast whatever train returned.
PredictTrainUnchecked ==
    /\ handler = "predict" /\ pc = "train"
    /\ \E fit \in FitOutcomes :
         LET r == train(predictor, metric_data, TENSORFLOW_AVAILABLE, fit)
         IN  /\ predictor' = r.self
             /\ trained_ok' = (trained_ok \/ r.ret)
             /\ calls' = Append(calls, TrainCall(r, fit))
             /\ pc' = "forecast"
             /\ UNCHANGED response
    /\ UNCHANGED <<metric_data, predictions, prediction_dates, results, midx>>
    /\ Frame

\* app.py:230-234
PredictTrain ==
    /\ handler = "predict" /\ pc = "train"
    /\ \E fit \in FitOutcomes :
         LET r == train(predictor, metric_data, TENSORFLOW_AVAILABLE, fit)
         IN  /\ predictor' = r.self
             /\ trained_ok' = (trained_ok \/ r.ret)
             /\ calls' = Append(calls, TrainCall(r, fit))
             /\ IF r.raised # "" THEN Respond500(r.raised)
                ELSE IF ~r.ret THEN Respond500("TrainingFailed")
                ELSE pc' = "forecast" /\ UNCHANGED response
    /\ UNCHANGED <<metric_data, predictions, prediction_dates, results, midx>>
    /\ Frame

\* app.py:237
PredictForecast ==
    /\ handler = "predict" /\ pc = "forecast"
    /\ \E outs \in OutSeqs(request.days) :
         LET r == predict(predictor, metric_data, request.days,
                          TENSORFLOW_AVAILABLE, outs)
         IN  /\ calls' = Append(calls, PredictCall(r, outs))
             /\ IF r.raised # ""
                THEN Respond500(r.raised) /\ UNCHANGED predictions
                ELSE predictions' = r.val /\ pc' = "dates" /\ UNCHANGED response
    /\ UNCHANGED <<metric_data, predictor, prediction_dates, results, midx,
                   trained_ok>>
    /\ Frame

\* app.py:240-270
PredictDates ==
    /\ handler = "predict" /\ pc = "dates"
    /\ LET r == FutureDates(request.historicalData, request.days)
       IN  IF r.raised # ""
           THEN Respond500(r.raised) /\ UNCHANGED prediction_dates
           ELSE prediction_dates' = r.val /\ pc' = "respond" /\ UNCHANGED response
    /\ UNCHANGED <<metric_data, predictor, predictions, results, midx,
                   trained_ok, calls>>
    /\ Frame

\* historical_data with nothing cut off.
EchoedRecordsAll(historical_data) == historical_data

\* historical_data[-14:]
EchoedRecords(historical_data) == LastK(historical_data, 14)

\* app.py:282-303
PredictRespond ==
    /\ handler = "predict" /\ pc = "respond"
    /\ Respond(200,
         [success |-> TRUE,
          metricType |-> request.metricType,
          modelType |-> request.modelType,
          predictions |-> PredictionList(prediction_dates, predictions,
                                         request.metricType),
          historicalData |-> EchoedRecords(request.historicalData),
          modelInfo |-> [tensorflowAvailable |-> TENSORFLOW_AVAILABLE,
                         sequenceLength |-> sequence_length,
                         trainingSamples |-> Len(metric_data) - sequence_length]])
    /\ UNCHANGED <<Locals, trained_ok, calls>>
    /\ Frame

(* POST /predict/batch *)

ReceiveBatch ==
    /\ pc = "idle"
    /\ \E req \in BatchRequests : request' = req
    /\ handler' = "predict_batch"
    /\ pc' = "validate"
    /\ UNCHANGED <<TENSORFLOW_AVAILABLE, ret, Locals, trained_ok, calls, response,
                   parked>>

\* The metric of the running iteration of "for metric in metrics".
metric == request.metrics[midx + 1]

\* app.py:324-330
BatchValidate ==
    /\ handler = "predict_batch" /\ pc = "validate"
    /\ IF Len(request.historicalData) = 0
       THEN Respond(400, [success |-> FALSE, error |-> "EmptyHistory"])
       ELSE pc' = "loop" /\ UNCHANGED response
    /\ UNCHANGED <<Locals, trained_ok, calls>>
    /\ Frame

\* BatchExcept leaving the loop instead of going on to the next metric.
BatchExceptBreak ==
    /\ results' = (metric :> JsonNull) @@ results
    /\ midx' = Len(request.metrics)
    /\ pc' = "loop"

\* The inner "except Exception" of the loop: results[metric] = None, and on
\* to the next metric.
BatchExcept ==
    /\ results' = (metric :> JsonNull) @@ results
    /\ midx' = midx + 1
    /\ pc' = "loop"

\* app.py:332-339
BatchResolve ==
    /\ handler = "predict_batch" /\ pc = "loop"
    /\ midx < Len(request.metrics)
    /\ LET r == MetricSeries(metric, request.historicalData)
       IN  IF r.raised # ""
           THEN BatchExcept /\ UNCHANGED metric_data
           ELSE /\ metric_data' = r.val
                /\ pc' = "create"
                /\ UNCHANGED <<results, midx>>
    /\ UNCHANGED <<predictor, predictions, prediction_dates, trained_ok, calls,
                   response>>
    /\ Frame

\* BatchCreate keeping the instance of the metric before.
BatchCreateReuse ==
    /\ handler = "predict_batch" /\ pc = "create"
    /\ calls' = Append(calls, CreateCall)
    /\ pc' = "train"
    /\ UNCHANGED <<predictor, trained_ok, metric_data, predictions,
                   prediction_dates, results, midx, response>>
    /\ Frame

\* app.py:341
BatchCreate ==
    /\ handler = "predict_batch" /\ pc = "create"
    /\ predictor' = NewPredictor(request.modelType)
    /\ trained_ok' = FALSE
    /\ calls' = Append(calls, CreateCall)
    /\ pc' = "train"
    /\ UNCHANGED <<metric_data, predictions, prediction_dates, results, midx,
                   response>>
    /\ Frame

\* app.py:342: "if predictor.train(metric_data):" has no else branch, so a
\* False falls through to the next metric.
BatchTrain ==
    /\ handler = "predict_batch" /\ pc = "train"
    /\ \E fit \in FitOutcomes :
         LET r == train(predictor, metric_data, TENSORFLOW_AVAILABLE, fit)
         IN  /\ predictor' = r.self
             /\ trained_ok' = (trained_ok \/ r.ret)
             /\ calls' = Append(calls, TrainCall(r, fit))
             /\ IF r.raised # "" THEN BatchExcept
                ELSE IF ~r.ret
                THEN midx' = midx + 1 /\ pc' = "loop" /\ UNCHANGED results
                ELSE pc' = "forecast" /\ UNCHANGED <<results, midx>>
    /\ UNCHANGED <<metric_data, predictions, prediction_dates, response>>
    /\ Frame

\* app.py:343
BatchForecast ==
    /\ handler = "predict_batch" /\ pc = "forecast"
    /\ \E outs \in OutSeqs(request.days) :
         LET r == predict(predictor, metric_data, request.days,
                          TENSORFLOW_AVAILABLE, outs)
         IN  /\ calls' = Append(calls, PredictCall(r, outs))
             /\ IF r.raised # ""
                THEN BatchExcept /\ UNCHANGED predictions
                ELSE /\ predictions' = r.val
                     /\ pc' = "dates"
                     /\ UNCHANGED <<results, midx>>
    /\ UNCHANGED <<metric_data, predictor, prediction_dates, trained_ok, response>>
    /\ Frame

\* app.py:346-376
BatchDates ==
    /\ handler = "predict_batch" /\ pc = "dates"
    /\ LET r == FutureDates(request.historicalData, request.days)
       IN  IF r.raised # ""
           THEN BatchExcept /\ UNCHANGED prediction_dates
           ELSE /\ prediction_dates' = r.val
                /\ pc' = "store"
                /\ UNCHANGED <<results, midx>>
    /\ UNCHANGED <<metric_data, predictor, predictions, trained_ok, calls,
                   response>>
    /\ Frame

\* app.py:387-393
BatchStore ==
    /\ handler = "predict_batch" /\ pc = "store"
    /\ results' = (metric :> JsonList(PredictionList(prediction_dates,
                                                    predictions, metric)))
                  @@ results
    /\ midx' = midx + 1
    /\ pc' = "loop"
    /\ UNCHANGED <<metric_data, predictor, predictions, prediction_dates,
                   trained_ok, calls, response>>
    /\ Frame

\* BatchRespond answering 500 when no metric got a prediction list.
BatchRespondAllFailed ==
    /\ handler = "predict_batch" /\ pc = "loop"
    /\ midx = Len(request.metrics)
    /\ IF \A m \in DOMAIN results : results[m].null
       THEN Respond500("AllMetricsFailed")
       ELSE Respond(200, [success |-> TRUE, modelType |-> request.modelType,
                          results |-> results])
    /\ UNCHANGED <<Locals, trained_ok, calls>>
    /\ Frame

\* app.py:398-403
BatchRespond ==
    /\ handler = "predict_batch" /\ pc = "loop"
    /\ midx = Len(request.metrics)
    /\ Respond(200, [success |-> TRUE, modelType |-> request.modelType,
                     results |-> results])
    /\ UNCHANGED <<Locals, trained_ok, calls>>
    /\ Frame

\* The response is sent and the handler's frame is gone.
Close ==
    /\ pc = "done"
    /\ pc' = "idle"
    /\ handler' = "idle"
    /\ request' = NoRequest
    /\ metric_data' = <<>>
    /\ predictor' = NewPredictor("lstm")
    /\ predictions' = <<>>
    /\ prediction_dates' = <<>>
    /\ results' = <<>>
    /\ midx' = 0
    /\ calls' = <<>>
    /\ response' = NoResponse
    /\ trained_ok' = FALSE
    /\ UNCHANGED <<TENSORFLOW_AVAILABLE, ret, parked>>

Next ==
    \/ ReceivePredict
    \/ PredictValidate
    \/ PredictResolve
    \/ PredictCreate
    \/ PredictTrain
    \/ PredictForecast
    \/ PredictDates
    \/ PredictRespond
    \/ ReceiveBatch
    \/ BatchValidate
    \/ BatchResolve
    \/ BatchCreate
    \/ BatchTrain
    \/ BatchForecast
    \/ BatchDates
    \/ BatchStore
    \/ BatchRespond
    \/ Close

Spec == Init /\ [][Next]_vars
----------------------------------------------------------------------------
(* Properties of the handlers.                                           *)

Called(op) == \E i \in 1..Len(calls) : calls[i].op = op

Requested == { request.metrics[i] : i \in 1..Len(request.metrics) }

\* C1: a /predict request with fewer than 14 records is answered with HTTP
\* 400, success = false and an error message, and no predictor is created,
\* trained or used for it.
C1_ShortHistoryRejected ==
    (handler = "predict" /\ Len(request.historicalData) < 14)
        => /\ calls = <<>>
           /\ pc \in {"validate", "done"}
           /\ pc = "done"
                => /\ response.status = 400
                   /\ response.body.success = FALSE
                   /\ response.body.error \in {"EmptyHistory", "InsufficientData"}

\* A request with 13 records was answered with 400.
C1_Witness ==
    /\ handler = "predict"
    /\ pc = "done"
    /\ Len(request.historicalData) = 13
    /\ response.status = 400
    /\ response.body.error = "InsufficientData"

\* C2: in both handlers train is never called unless the request has at
\* least 14 records; in particular a batch request with fewer than 14
\* records gets no prediction list for any metric.
C2_NoTrainingBelow14 ==
    /\ Called("train") => Len(request.historicalData) >= 14
    /\ (handler = "predict_batch" /\ Len(request.historicalData) < 14)
         => \A m \in DOMAIN results : results[m].null

\* C3: every value predict returns to a handler, and every value of a
\* prediction list of a /predict or /predict/batch response, is >= 0.
C3_NonNegative ==
    /\ \A k \in 1..Len(predictions) : RLeq(Num(0), predictions[k])
    /\ (handler = "predict" /\ pc = "done" /\ response.status = 200)
         => \A k \in 1..Len(response.body.predictions) :
                RLeq(Num(0), response.body.predictions[k].value)
    /\ (handler = "predict_batch")
         => \A m \in DOMAIN results :
              \A k \in 1..Len(results[m].list) :
                  RLeq(Num(0), results[m].list[k].value)
    /\ (handler = "predict_batch" /\ pc = "done" /\ response.status = 200)
         => response.body.results = results

\* A /predict response whose first value is the clamped 0 of a negative
\* regressor output, on a series with negative values.
C3_Witness ==
    /\ handler = "predict"
    /\ pc = "done"
    /\ response.status = 200
    /\ \E i \in 1..Len(metric_data) : RLess(metric_data[i], Num(0))
    /\ calls[3].outs[1] = Rat(-1, 1)
    /\ response.body.predictions[1].value = Num(0)

\* The number of the day d, counted from 0001-01-01 = 1.
RECURSIVE DaysBeforeMonth(_, _)
DaysBeforeMonth(y, m) ==
    IF m = 1 THEN 0 ELSE DaysBeforeMonth(y, m - 1) + DaysInMonth(y, m - 1)

Ordinal(d) ==
    LET y == d[1] - 1
    IN  365 * y + (y \div 4) - (y \div 100) + (y \div 400)
        + DaysBeforeMonth(d[1], d[2]) + d[3]

\* The calendar day the last record of a generated list stands for.
LastRecordDay == Ordinal(FirstDate) + Len(request.historicalData) - 1

\* C4: a successful /predict response for days >= 1 has exactly days
\* points; the date of the k-th is the plain date k days after the day of
\* the last record, and its value is the formatted k-th forecast value.
C4_DatesFollowLastRecord ==
    (handler = "predict" /\ pc = "done" /\ response.status = 200
        /\ request.days >= 1)
        => LET list == response.body.predictions
           IN  /\ Len(list) = request.days
               /\ Len(predictions) = request.days
               /\ \A k \in 1..request.days :
                    LET d == strptime(list[k].date, date_formats[1])
                    IN  /\ d.ok
                        /\ Len(list[k].date) = 10
                        /\ Ordinal(d.date) = LastRecordDay + k
                        /\ list[k].value =
                             format_prediction_value(predictions[k],
                                                     request.metricType)

\* Two points after a last record of 2024-02-29T10:30:00.000Z.
C4_Witness ==
    /\ handler = "predict"
    /\ pc = "done"
    /\ response.status = 200
    /\ request.days = 2
    /\ Len(request.historicalData[14]["date"]) > 10
    /\ response.body.predictions[1].date = strftime(<<2024, 3, 1>>)
    /\ response.body.predictions[2].date = strftime(<<2024, 3, 2>>)

\* C5: the results of a batch response have exactly the requested metric
\* names as keys, each mapped to a prediction list or to null.
C5_EveryMetricHasAKey ==
    (handler = "predict_batch" /\ pc = "done" /\ response.status = 200)
        => DOMAIN response.body.results = Requested

\* What the library did for the metric at loop position i, from the log.
FitAt(i) ==
    IF \E j \in 1..Len(calls) : calls[j].op = "train" /\ calls[j].at = i
    THEN calls[CHOOSE j \in 1..Len(calls) :
                   calls[j].op = "train" /\ calls[j].at = i].fit
    ELSE "none"

OutsAt(i) ==
    IF \E j \in 1..Len(calls) : calls[j].op = "predict" /\ calls[j].at = i
    THEN calls[CHOOSE j \in 1..Len(calls) :
                   calls[j].op = "predict" /\ calls[j].at = i].outs
    ELSE <<>>

\* The logged outputs as a list of the given length; where the log has
\* none (the forecast was not made or failed) the value is of no account.
PadOuts(outs, days) ==
    [k \in 1..days |-> IF k <= Len(outs) THEN outs[k] ELSE Num(0)]

\* The results a batch request for the one metric m gets from the same
\* records, days and model type when the library behaves as given.
Alone(m, fit, outs) ==
    LET h == request.historicalData
        s == MetricSeries(m, h)
        t == train(NewPredictor(request.modelType), s.val,
                   TENSORFLOW_AVAILABLE, fit)
        f == predict(t.self, s.val, request.days, TENSORFLOW_AVAILABLE,
                     PadOuts(outs, request.days))
        d == FutureDates(h, request.days)
    IN  IF s.raised # "" THEN (m :> JsonNull)
        ELSE IF ~t.ret THEN <<>>
        ELSE IF f.raised # "" \/ d.raised # "" THEN (m :> JsonNull)
        ELSE (m :> JsonList(PredictionList(d.val, f.val, m)))

\* The results after the first k metrics, each handled alone.
RECURSIVE EachAlone(_)
EachAlone(k) ==
    IF k = 0 THEN <<>>
    ELSE Alone(request.metrics[k], FitAt(k - 1), OutsAt(k - 1)) @@ EachAlone(k - 1)

\* C6: a failure in one metric of a batch neither ends the loop nor changes
\* what the other metrics get: between iterations the results are those of
\* the metrics handled so far, each as if it were requested alone, and the
\* response is built only after every requested metric was handled.
C6_MetricsAreIsolated ==
    (handler = "predict_batch" /\ Len(request.historicalData) > 0)
        => /\ pc = "loop" => results = EachAlone(midx)
           /\ pc = "done"
                => /\ midx = Len(request.metrics)
                   /\ response.status = 200
                   /\ response.body.results = EachAlone(Len(request.metrics))

\* A batch response where the first metric failed (null) and the second,
\* a different one, has a full prediction list.
C6_Witness ==
    /\ handler = "predict_batch"
    /\ pc = "done"
    /\ response.status = 200
    /\ Len(request.metrics) = 2
    /\ request.metrics[1] # request.metrics[2]
    /\ request.days = 2
    /\ DOMAIN response.body.results = Requested
    /\ response.body.results[request.metrics[1]].null
    /\ Len(response.body.results[request.metrics[2]].list) = 2
----------------------------------------------------------------------------
(* SpecDates: the handlers on requests that differ in the date string of   *)
(* the last record.                                                        *)

MaxDateDays == 3   \* largest forecast horizon of these requests

ClockTime == <<"1", "0", ":", "3", "0", ":", "0", "0">>

\* What may follow the date part of a date string.
DateSuffixes ==
    { <<>>,
      <<"T">> \o ClockTime,
      <<"T">> \o ClockTime \o <<".", "0", "0", "0">>,
      <<"T">> \o ClockTime \o <<".", "0", "0", "0", "Z">>,
      <<" ">> \o ClockTime,
      <<"t">> \o ClockTime,
      <<"T", "1", "0", ":", "3", "0">>,
      <<" ", "1", "0", ":", "3", "0">>,
      <<"T">> \o ClockTime \o <<"+", "0", "8", ":", "0", "0">>,
      <<" ">> \o ClockTime \o <<" ", "U", "T", "C">>,
      <<"Z">> }

\* The date parts: valid days, a day that does not exist, digits without
\* padding, a day padded with a space, and strings that are no date.
DateParts ==
    { strftime(<<2024, 1, 15>>),
      strftime(<<2024, 2, 29>>),
      strftime(<<2023, 2, 29>>),
      strftime(<<2024, 12, 31>>),
      <<"2", "0", "2", "4", "-", "1", "-", "5">>,
      <<"2", "0", "2", "4", "-", "0", "1", "-", " ", "5">>,
      <<"1", "5", "/", "0", "1", "/", "2", "0", "2", "4">>,
      <<>> }

DateStrings == { part \o sfx : part \in DateParts, sfx \in DateSuffixes }

\* MinRecords records of the sample profile, the last one dated str.
DatedHistory(str) ==
    [i \in 1..MinRecords |->
        IF i < MinRecords THEN Record("sample", i, MinRecords, "plain")
        ELSE [Record("sample", i, MinRecords, "plain") EXCEPT !["date"] = str]]

DatedRequests ==
    { [endpoint |-> "predict", metricType |-> "pv", modelType |-> "lstm",
       days |-> d, historicalData |-> DatedHistory(str)] :
        d \in 1..MaxDateDays, str \in DateStrings }
    \cup
    { [endpoint |-> "predict_batch", metrics |-> <<"pv">>, modelType |-> "lstm",
       days |-> d, historicalData |-> DatedHistory(str)] :
        d \in 1..MaxDateDays, str \in DateStrings }

\* request.json of either handler
ReceiveDated ==
    /\ pc = "idle"
    /\ \E req \in DatedRequests :
         /\ request' = req
         /\ handler' = req.endpoint
    /\ pc' = "validate"
    /\ UNCHANGED <<TENSORFLOW_AVAILABLE, ret, Locals, trained_ok, calls, response,
                   parked>>

NextDates ==
    \/ ReceiveDated
    \/ PredictValidate
    \/ PredictResolve
    \/ PredictCreate
    \/ PredictTrain
    \/ PredictForecast
    \/ PredictDates
    \/ PredictRespond
    \/ BatchValidate
    \/ BatchResolve
    \/ BatchCreate
    \/ BatchTrain
    \/ BatchForecast
    \/ BatchDates
    \/ BatchStore
    \/ BatchRespond
    \/ Close

SpecDates == Init /\ [][NextDates]_vars

LastDateStr == request.historicalData[Len(request.historicalData)]["date"]

\* The formats that parse str, by position in the list.
Parsing(str) ==
    { i \in 1..Len(date_formats) : strptime(str, date_formats[i]).ok }

Least(S) == CHOOSE i \in S : \A j \in S : i <= j

\* str up to, not including, its first "T" or space.
CutAtTOrSpace(str) ==
    LET stops == { i \in 1..Len(str) : str[i] \in {"T", " "} }
    IN  IF stops = {} THEN str ELSE SubSeq(str, 1, Least(stops) - 1)

\* The date the ordered trial gives: the first format that parses, else the
\* cut string as a plain date.
Resolved(str) ==
    IF Parsing(str) # {}
    THEN strptime(str, date_formats[Least(Parsing(str))])
    ELSE strptime(CutAtTOrSpace(str), date_formats[1])

\* The forecast of the running request (or metric) succeeded and the date
\* block that follows it has run.
DatesRan ==
    /\ calls # <<>>
    /\ calls[Len(calls)].op = "predict"
    /\ calls[Len(calls)].ok
    /\ pc # "dates"

DatesOf(list) == [k \in 1..Len(list) |-> list[k].date]

ExampleDateStr ==
    <<"2", "0", "2", "4", "-", "0", "1", "-", "1", "5", "T", "1", "0", ":",
      "3", "0", ":", "0", "0", ".", "0", "0", "0", "Z">>

ExampleDates ==
    << <<"2", "0", "2", "4", "-", "0", "1", "-", "1", "6">>,
       <<"2", "0", "2", "4", "-", "0", "1", "-", "1", "7">>,
       <<"2", "0", "2", "4", "-", "0", "1", "-", "1", "8">> >>

\* C11: once the forecast is made, the date of the last record is the one
\* given by the first of the five formats that parses, else by the string
\* cut at its first "T" or space read as a plain date; the future dates are
\* the days after it; only when both fail the single flow answers 500 with
\* the date-parse error and the batch flow stores null for the metric.
\* "2024-01-15T10:30:00.000Z" with days = 3 gives 2024-01-16, 2024-01-17,
\* 2024-01-18.
C11_DateResolution ==
    (handler \in {"predict", "predict_batch"} /\ DatesRan)
        => LET r == Resolved(LastDateStr)
               want == [k \in 1..request.days |-> strftime(AddDays(r.date, k))]
           IN  /\ (handler = "predict" /\ pc = "respond")
                    => (r.ok /\ prediction_dates = want)
               /\ (handler = "predict" /\ pc = "done")
                    => IF r.ok
                       THEN /\ response.status = 200
                            /\ DatesOf(response.body.predictions) = want
                       ELSE /\ response.status = 500
                            /\ response.body.error = "DateParse"
               /\ (handler = "predict_batch" /\ pc = "store")
                    => (r.ok /\ prediction_dates = want)
               /\ (handler = "predict_batch" /\ pc \in {"loop", "done"})
                    => IF r.ok
                       THEN DatesOf(results["pv"].list) = want
                       ELSE results["pv"].null
               /\ (LastDateStr = ExampleDateStr /\ request.days = 3
                     /\ pc = "done")
                    => /\ response.status = 200
                       /\ handler = "predict"
                            => DatesOf(response.body.predictions) = ExampleDates
                       /\ handler = "predict_batch"
                            => DatesOf(response.body.results["pv"].list)
                                 = ExampleDates

\* The example request answered by /predict with its three dates.
C11_Witness ==
    /\ handler = "predict"
    /\ pc = "done"
    /\ response.status = 200
    /\ LastDateStr = ExampleDateStr
    /\ request.days = 3
    /\ DatesOf(response.body.predictions) = ExampleDates
----------------------------------------------------------------------------
(* Formatting of the returned values.                                      *)

\* The number of units per 1 a value of the metric is rounded to.
UnitsPerOne(m) == IF m \in {"pv", "uv"} THEN 1 ELSE 10000

\* v is a whole number of 1/units that is no further than half a unit
\* from x.
IsRoundingOf(v, x, units) ==
    /\ IsNum(v)
    /\ RMul(v, Num(units))[2] = 1
    /\ RLeq(RMul(Num(2 * units), RSub(v, x)), Num(1))
    /\ RLeq(RMul(Num(2 * units), RSub(x, v)), Num(1))

\* The last engine call was the successful forecast of the metric at loop
\* position i.
ForecastIsOf(i) ==
    /\ calls # <<>>
    /\ calls[Len(calls)].op = "predict"
    /\ calls[Len(calls)].ok
    /\ calls[Len(calls)].at = i

\* C12: every value /predict returns, and every value the batch loop stores
\* and returns, is the forecast value rounded to the nearest integer for pv
\* and uv and to 4 decimal places for every other metric; 99.6 for pv is
\* 100 and 0.123456 for conversion_rate is 0.1235.
C12_ValuesAreRounded ==
    /\ (handler = "predict" /\ pc = "done" /\ response.status = 200)
         => /\ Len(response.body.predictions) = Len(predictions)
            /\ \A k \in 1..Len(predictions) :
                 IsRoundingOf(response.body.predictions[k].value,
                              predictions[k], UnitsPerOne(request.metricType))
    /\ (handler = "predict_batch" /\ pc = "loop" /\ midx >= 1
          /\ ForecastIsOf(midx - 1)
          /\ request.metrics[midx] \in DOMAIN results
          /\ ~results[request.metrics[midx]].null)
         => LET m == request.metrics[midx]
            IN  /\ Len(results[m].list) = Len(predictions)
                /\ \A k \in 1..Len(predictions) :
                     IsRoundingOf(results[m].list[k].value, predictions[k],
                                  UnitsPerOne(m))
    /\ (handler = "predict_batch" /\ pc = "done" /\ response.status = 200)
         => \A m \in DOMAIN response.body.results :
              \A k \in 1..Len(response.body.results[m].list) :
                  RMul(response.body.results[m].list[k].value,
                       Num(UnitsPerOne(m)))[2] = 1
    /\ format_prediction_value(Rat(996, 10), "pv") = Num(100)
    /\ format_prediction_value(Rat(123456, 1000000), "conversion_rate")
         = Rat(1235, 10000)

\* The batch loop has stored a conversion rate that rounding changed, after
\* a pv list of whole numbers.
C12_Witness ==
    /\ handler = "predict_batch"
    /\ pc = "loop"
    /\ request.metrics = <<"pv", "conversion_rate">>
    /\ midx = 2
    /\ ForecastIsOf(1)
    /\ DOMAIN results = {"pv", "conversion_rate"}
    /\ ~results["pv"].null
    /\ ~results["conversion_rate"].null
    /\ results["pv"].list[1].value[2] = 1
    /\ results["conversion_rate"].list[1].value # predictions[1]
    /\ results["conversion_rate"].list[1].value[2] # 1
----------------------------------------------------------------------------
(* SpecEcho: the handlers on requests with MinRecords records and more.    *)

MaxRecords == 16   \* longest record list of these requests

LongHistories ==
    { HistoricalData(p, n, "plain") : p \in Profiles, n \in MinRecords..MaxRecords }

LongRequests ==
    { [endpoint |-> "predict", metricType |-> m, modelType |-> mt,
       days |-> d, historicalData |-> h] :
        m \in MetricNames, mt \in ModelTypes, d \in 1..MaxDays,
        h \in LongHistories }
    \cup
    { [endpoint |-> "predict_batch", metrics |-> <<m>>, modelType |-> mt,
       days |-> d, historicalData |-> h] :
        m \in MetricNames, mt \in ModelTypes, d \in 1..MaxDays,
        h \in LongHistories }

\* request.json of either handler
ReceiveLong ==
    /\ pc = "idle"
    /\ \E req \in LongRequests :
         /\ request' = req
         /\ handler' = req.endpoint
    /\ pc' = "validate"
    /\ UNCHANGED <<TENSORFLOW_AVAILABLE, ret, Locals, trained_ok, calls, response,
                   parked>>

NextEcho ==
    \/ ReceiveLong
    \/ PredictValidate
    \/ PredictResolve
    \/ PredictCreate
    \/ PredictTrain
    \/ PredictForecast
    \/ PredictDates
    \/ PredictRespond
    \/ BatchValidate
    \/ BatchResolve
    \/ BatchCreate
    \/ BatchTrain
    \/ BatchForecast
    \/ BatchDates
    \/ BatchStore
    \/ BatchRespond
    \/ Close

SpecEcho == Init /\ [][NextEcho]_vars

\* The echo of a successful /predict response: 14 records, the i-th being
\* record n - 14 + i of the n records supplied.
EchoIsLast14 ==
    (handler = "predict" /\ pc = "done" /\ response.status = 200)
        => LET h == request.historicalData
               e == response.body.historicalData
           IN  /\ Len(e) = 14
               /\ \A i \in 1..14 : e[i] = h[Len(h) - 14 + i]

\* A step of a running handler leaves the record list as it is.
RecordsKept ==
    (handler # "idle" /\ handler' # "idle")
        => request'.historicalData = request.historicalData

\* C13: a successful /predict response echoes exactly the last 14 supplied
\* records, in order and unchanged, and no step of either handler changes
\* the supplied record list.
C13_EchoAndReadOnlyRecords == []EchoIsLast14 /\ [][RecordsKept]_vars

\* 16 records were supplied and the echo starts with the third.
C13_Witness ==
    /\ handler = "predict"
    /\ pc = "done"
    /\ response.status = 200
    /\ Len(request.historicalData) = 16
    /\ Len(response.body.historicalData) = 14
    /\ response.body.historicalData[1] = request.historicalData[3]
    /\ response.body.historicalData[1] # request.historicalData[1]
----------------------------------------------------------------------------
(* SpecThreads: MaxThreads requests handled at the same time.  Every       *)
(* handler invocation has its own locals (its frame); the server runs one  *)
(* step of one invocation at a time, in any order.  The running frame is   *)
(* in the variables, the others are parked.                                *)

\* The frame of the running handler.
RunningFrame ==
    [handler |-> handler, pc |-> pc, request |-> request,
     metric_data |-> metric_data, predictor |-> predictor,
     predictions |-> predictions, prediction_dates |-> prediction_dates,
     results |-> results, midx |-> midx, calls |-> calls,
     response |-> response, trained_ok |-> trained_ok]

\* Switch with the predictor kept in one place for all handlers.
SwitchSharedPredictor ==
    \E i \in DOMAIN parked :
        /\ parked[i] # RunningFrame
        /\ parked' = [parked EXCEPT ![i] = RunningFrame]
        /\ handler' = parked[i].handler
        /\ pc' = parked[i].pc
        /\ request' = parked[i].request
        /\ metric_data' = parked[i].metric_data
        /\ predictions' = parked[i].predictions
        /\ prediction_dates' = parked[i].prediction_dates
        /\ results' = parked[i].results
        /\ midx' = parked[i].midx
        /\ calls' = parked[i].calls
        /\ response' = parked[i].response
        /\ UNCHANGED <<TENSORFLOW_AVAILABLE, ret, predictor, trained_ok>>

\* The server goes on with another handler: the running frame is parked
\* and a parked one runs.
Switch ==
    \E i \in DOMAIN parked :
        /\ parked[i] # RunningFrame
        /\ parked' = [parked EXCEPT ![i] = RunningFrame]
        /\ handler' = parked[i].handler
        /\ pc' = parked[i].pc
        /\ request' = parked[i].request
        /\ metric_data' = parked[i].metric_data
        /\ predictor' = parked[i].predictor
        /\ predictions' = parked[i].predictions
        /\ prediction_dates' = parked[i].prediction_dates
        /\ results' = parked[i].results
        /\ midx' = parked[i].midx
        /\ calls' = parked[i].calls
        /\ response' = parked[i].response
        /\ trained_ok' = parked[i].trained_ok
        /\ UNCHANGED <<TENSORFLOW_AVAILABLE, ret>>

ThreadRequests ==
    { [endpoint |-> "predict", metricType |-> "pv", modelType |-> "lstm",
       days |-> 1, historicalData |-> HistoricalData(p, MinRecords, "plain")] :
        p \in {"sample", "sparse"} }
    \cup
    { [endpoint |-> "predict", metricType |-> "conversion_rate",
       modelType |-> "gru", days |-> 1,
       historicalData |-> HistoricalData("sample", MinRecords, "plain")],
      [endpoint |-> "predict_batch", metrics |-> <<"pv">>, modelType |-> "lstm",
       days |-> 1,
       historicalData |-> HistoricalData("sample", MinRecords, "plain")] }

\* request.json of either handler
ReceiveThread ==
    /\ pc = "idle"
    /\ \E req \in ThreadRequests :
         /\ request' = req
         /\ handler' = req.endpoint
    /\ pc' = "validate"
    /\ UNCHANGED <<TENSORFLOW_AVAILABLE, ret, Locals, trained_ok, calls, response,
                   parked>>

NextThreads ==
    \/ ReceiveThread
    \/ Switch
    \/ PredictValidate
    \/ PredictResolve
    \/ PredictCreate
    \/ PredictTrain
    \/ PredictForecast
    \/ PredictDates
    \/ PredictRespond
    \/ BatchValidate
    \/ BatchResolve
    \/ BatchCreate
    \/ BatchTrain
    \/ BatchForecast
    \/ BatchDates
    \/ BatchStore
    \/ BatchRespond
    \/ Close

SpecThreads == Init /\ [][NextThreads]_vars

\* The response /predict gives to req when it is the only request, the
\* library's fit ending as fit and its predictions being outs.
PredictAlone(req, tf, fit, outs) ==
    LET h == req.historicalData
        s == MetricSeries(req.metricType, h)
        t == train(NewPredictor(req.modelType), s.val, tf, fit)
        f == predict(t.self, s.val, req.days, tf, PadOuts(outs, req.days))
        d == FutureDates(h, req.days)
        fail(status, err) ==
            [status |-> status, body |-> [success |-> FALSE, error |-> err]]
    IN  IF Len(h) = 0 THEN fail(400, "EmptyHistory")
        ELSE IF Len(h) < 14 THEN fail(400, "InsufficientData")
        ELSE IF s.raised # "" THEN fail(500, s.raised)
        ELSE IF ~t.ret THEN fail(500, "TrainingFailed")
        ELSE IF f.raised # "" THEN fail(500, f.raised)
        ELSE IF d.raised # "" THEN fail(500, d.raised)
        ELSE [status |-> 200,
              body |-> [success |-> TRUE,
                        metricType |-> req.metricType,
                        modelType |-> req.modelType,
                        predictions |-> PredictionList(d.val, f.val,
                                                       req.metricType),
                        historicalData |-> LastK(h, 14),
                        modelInfo |-> [tensorflowAvailable |-> tf,
                                       sequenceLength |-> 7,
                                       trainingSamples |-> Len(s.val) - 7]]]

\* Every response is the one the request gets alone, and every train call
\* is made on an instance created just before it for the same request.
ResponsesAsAlone ==
    /\ (handler = "predict" /\ pc = "done")
         => response = PredictAlone(request, TENSORFLOW_AVAILABLE,
                                    FitAt(0), OutsAt(0))
    /\ (handler = "predict_batch" /\ pc = "done")
         => response =
              [status |-> 200,
               body |-> [success |-> TRUE, modelType |-> request.modelType,
                         results |-> EachAlone(Len(request.metrics))]]
    /\ \A j \in 1..Len(calls) :
         calls[j].op = "train"
            => (j > 1 /\ calls[j - 1].op = "create"
                      /\ calls[j - 1].at = calls[j].at)

FlagKept == TENSORFLOW_AVAILABLE' = TENSORFLOW_AVAILABLE

\* C14: handlers share no model or scaler; the backend flag is never
\* written after startup; however the steps of the requests handled at the
\* same time interleave, each response is the one its request gets alone
\* (for the same behaviour of the library).
C14_RequestsAreIsolated == []ResponsesAsAlone /\ [][FlagKept]_vars

\* A /predict response is ready while another request, with other records,
\* is between its training and its forecast with a scaler of its own.
C14_Witness ==
    /\ handler = "predict"
    /\ pc = "done"
    /\ response.status = 200
    /\ parked[1].handler = "predict"
    /\ parked[1].pc = "forecast"
    /\ parked[1].request.historicalData # request.historicalData
    /\ parked[1].predictor.scaler.fitted
    /\ parked[1].predictor.scaler # predictor.scaler
----------------------------------------------------------------------------
(* Further properties of the engine called directly.                       *)

LibCalled(name) == \E i \in 1..Len(ret.lib) : ret.lib[i] = name

\* C15: predict on a trained engine with a series of fewer than 7 values
\* fails with the insufficient-data error of an explicit length check,
\* before the regressor is asked for a prediction, and returns no values.
C15_ShortSeriesForecastChecked ==
    (ret.op = "predict" /\ trained_ok /\ Len(ret.data) < 7)
        => /\ ret.raised = "InsufficientData"
           /\ ~LibCalled("model.predict")
           /\ ret.val = <<>>

(* SpecScaler: a new MinMaxScaler fitted on a series and inverted.         *)

\* The numeric series of UnitSeries, as they are and divided by 3 and -2.
ScalerSeries ==
    UnitSeries
    \cup { [i \in 1..Len(s) |-> RDiv(s[i], Num(d))] :
              s \in { u \in UnitSeries : AllNum(u) }, d \in {3, -2} }

\* scaled = MinMaxScaler().fit_transform(data), then
\* scaler.inverse_transform(scaled)
UnitScaler ==
    /\ pc = "ready"
    /\ \E data \in ScalerSeries :
        LET bad == Len(data) = 0 \/ ~AllNum(data)
            sc == ScalerFit(data)
            scaled == ScalerTransform(sc, data)
        IN  /\ ret' = IF bad
                      THEN [op |-> "scaler", data |-> data,
                            raised |-> "ValueError", scaled |-> <<>>,
                            back |-> <<>>]
                      ELSE [op |-> "scaler", data |-> data, raised |-> "",
                            scaled |-> scaled,
                            back |-> ScalerInverse(sc, scaled)]
            /\ UNCHANGED <<predictor, trained_ok>>
            /\ UnitCall

NextScaler ==
    \/ UnitReturn
    \/ UnitScaler

SpecScaler == InitRate /\ [][NextScaler]_vars

IsConstant(data) == \A i \in 1..Len(data) : data[i] = data[1]

\* C16: on a numeric series the fit succeeds, every normalized value lies
\* in [0, 1] and the inverse of the normalized series is the series; a
\* constant series normalizes to zeros, with no division by zero, and
\* comes back as the constant.
C16_ScalerRoundTrip ==
    (ret.op = "scaler" /\ Len(ret.data) > 0 /\ AllNum(ret.data))
        => /\ ret.raised = ""
           /\ Len(ret.scaled) = Len(ret.data)
           /\ \A i \in 1..Len(ret.data) :
                /\ IsNum(ret.scaled[i])
                /\ RLeq(Num(0), ret.scaled[i])
                /\ RLeq(ret.scaled[i], Num(1))
           /\ ret.back = ret.data
           /\ IsConstant(ret.data)
                => \A i \in 1..Len(ret.data) : ret.scaled[i] = Num(0)

\* The constant series of five times -3 went to zeros and back.
C16_Witness ==
    /\ ret.op = "scaler"
    /\ ret.data = [i \in 1..5 |-> Num(-3)]
    /\ ret.raised = ""
    /\ ret.scaled = [i \in 1..5 |-> Num(0)]
    /\ ret.back = ret.data

\* A series that is not constant reached both ends of [0, 1].
C16_WitnessSpread ==
    /\ ret.op = "scaler"
    /\ ret.raised = ""
    /\ \E i, j \in 1..Len(ret.scaled) :
         ret.scaled[i] = Num(0) /\ ret.scaled[j] = Num(1)
    /\ \E i \in 1..Len(ret.scaled) : ret.scaled[i][2] > 1
----------------------------------------------------------------------------
(* SpecLinear: the process without TensorFlow handling MaxThreads /predict *)
(* requests, so that two engines can be looked at side by side.            *)

LinearRequests ==
    { [endpoint |-> "predict", metricType |-> "pv", modelType |-> mt,
       days |-> 2, historicalData |-> HistoricalData("sample", MinRecords, "plain")] :
        mt \in ModelTypes }
    \cup
    { [endpoint |-> "predict", metricType |-> "uv", modelType |-> "lstm",
       days |-> 2,
       historicalData |-> HistoricalData("sample", MinRecords, "plain")] }

\* request.json of predict
ReceiveLinear ==
    /\ pc = "idle"
    /\ \E req \in LinearRequests :
         /\ request' = req
         /\ handler' = req.endpoint
    /\ pc' = "validate"
    /\ UNCHANGED <<TENSORFLOW_AVAILABLE, ret, Locals, trained_ok, calls, response,
                   parked>>

InitLinear ==
    /\ Init
    /\ TENSORFLOW_AVAILABLE = FALSE

NextLinear ==
    \/ ReceiveLinear
    \/ Switch
    \/ PredictValidate
    \/ PredictResolve
    \/ PredictCreate
    \/ PredictTrain
    \/ PredictForecast
    \/ PredictDates
    \/ PredictRespond
    \/ Close

SpecLinear == InitLinear /\ [][NextLinear]_vars

\* The forecast of the frame's request has been made.
Forecasted(f) ==
    /\ f.handler = "predict"
    /\ f.calls # <<>>
    /\ f.calls[Len(f.calls)].op = "predict"
    /\ f.calls[Len(f.calls)].ok

\* What the regressor of the frame answered, and what it was asked at
\* iteration k.
AnswersOf(f) == f.calls[Len(f.calls)].outs

AskedAt(f, k) ==
    LoopInput(ScalerTransform(f.predictor.scaler,
                              LastK(f.metric_data, sequence_length)),
              AnswersOf(f), k)

\* The two regressors gave the same answer wherever they were asked the
\* same: LinearRegression fitted on the same pairs is one function.
SameFunction(f, g) ==
    \A k \in 1..f.request.days :
        AskedAt(f, k) = AskedAt(g, k) => AnswersOf(f)[k] = AnswersOf(g)[k]

\* C17: without TensorFlow every engine that trained holds the linear
\* regressor whatever model type was requested, and two engines trained on
\* the same series and forecasting it for the same number of days return
\* the same list, whatever the model types and whatever was handled before
\* (the linear regressor being a function of its training pairs and input).
C17_LinearFallbackIsDeterministic ==
    /\ \A i \in DOMAIN parked :
         (/\ Forecasted(RunningFrame)
          /\ Forecasted(parked[i])
          /\ parked[i].metric_data = metric_data
          /\ parked[i].request.days = request.days
          /\ SameFunction(RunningFrame, parked[i]))
            => /\ parked[i].predictions = predictions
               /\ (pc = "done" /\ parked[i].pc = "done")
                    => parked[i].response.body.predictions
                         = response.body.predictions
    /\ Forecasted(RunningFrame)
         => (predictor.model.kind = "linear" /\ predictor.model.fitted)

\* A gru request and an lstm request on the same records, both answered,
\* with the same values.
C17_Witness ==
    /\ pc = "done"
    /\ response.status = 200
    /\ request.modelType = "gru"
    /\ parked[1].pc = "done"
    /\ parked[1].response.status = 200
    /\ parked[1].request.modelType = "lstm"
    /\ parked[1].metric_data = metric_data
    /\ SameFunction(RunningFrame, parked[1])
    /\ Len(predictions) = 2
    /\ predictions[1] # predictions[2]
    /\ parked[1].response.body.predictions = response.body.predictions

(* SpecLoop: the engine called directly with forecasts of up to            *)
(* MaxLoopDays days, more than the window is long.                         *)

MaxLoopDays == 9   \* largest number of days of these forecasts

\* A series of exactly 7 values and one of 9 values.
LoopSeries == { GenSeries(7, 2, 1, 2), GenSeries(9, -3, 1, 0) }

UnitTrainLoop == UnitTrainOn(LoopSeries)

UnitPredictLoop == UnitPredictOn(LoopSeries, MaxLoopDays)

NextLoop ==
    \/ UnitReturn
    \/ UnitTrainLoop
    \/ UnitPredictLoop

SpecLoop == InitUnit /\ [][NextLoop]_vars

\* The last n elements of s, n >= 0.
Newest(s, n) == SubSeq(s, Len(s) - n + 1, Len(s))

Count(s, x) == Cardinality({ i \in 1..Len(s) : s[i] = x })

Max0(a) == IF a < 0 THEN 0 ELSE a

\* C18: predict for days >= 1 on a numeric series of at least 7 values, on
\* an engine whose scaler and regressor are fitted, asks the regressor
\* exactly days times and then returns days values; the k-th input is 7
\* values: the last max(0, 7 - (k - 1)) normalized values of the series
\* followed by the newest min(k - 1, 7) earlier predictions in the order
\* they were made.
C18_LoopSlidesTheWindow ==
    (/\ ret.op = "predict"
     /\ ret.days >= 1
     /\ Len(ret.data) >= 7
     /\ AllNum(ret.data)
     /\ predictor.scaler.fitted
     /\ predictor.model.fitted)
        => LET hist == ScalerTransform(predictor.scaler, ret.data)
           IN  /\ ret.raised = ""
               /\ Count(ret.lib, "model.predict") = ret.days
               /\ ret.lib[Len(ret.lib)] = "inverse_transform"
               /\ Len(ret.val) = ret.days
               /\ Len(ret.inputs) = ret.days
               /\ \A k \in 1..ret.days :
                    /\ Len(ret.inputs[k]) = 7
                    /\ ret.inputs[k] =
                         Newest(hist, Max0(7 - (k - 1)))
                         \o Newest(SubSeq(ret.outs, 1, k - 1), Min(k - 1, 7))

\* A forecast of 9 days: the ninth input holds predictions only, the
\* second to the eighth, and they are not all the same.
C18_Witness ==
    /\ ret.op = "predict"
    /\ ret.raised = ""
    /\ ret.days = 9
    /\ Len(ret.inputs) = 9
    /\ ret.inputs[9] = SubSeq(ret.outs, 2, 8)
    /\ ret.outs[2] # ret.outs[3]
    /\ ret.inputs[2][7] = ret.outs[1]
----------------------------------------------------------------------------
(* The scaler over one episode: an engine is created, trained and asked    *)
(* to forecast by a handler.                                               *)

\* The library calls of the engine calls made at loop position i, among
\* the first j calls of the log, in order.
RECURSIVE EpisodeLib(_, _)
EpisodeLib(j, i) ==
    IF j = 0 THEN <<>>
    ELSE EpisodeLib(j - 1, i)
         \o (IF calls[j].at = i THEN calls[j].lib ELSE <<>>)

\* Every transform and inverse_transform of lib comes after a fit.
FitComesFirst(lib) ==
    \A q \in 1..Len(lib) :
        lib[q] \in {"transform", "inverse_transform"}
            => \E r \in 1..(q - 1) : lib[r] = "fit_transform"

TrainCalledAt(i) ==
    \E j \in 1..Len(calls) : calls[j].op = "train" /\ calls[j].at = i

\* min and max of the series the engine was trained on.
FittedOn(series) ==
    [fitted |-> TRUE, min |-> SeqMin(series), max |-> SeqMax(series)]

\* v * (max - min) + min, not below 0; a zero range counts as 1.
Denormalized(v, series) ==
    LET mn == SeqMin(series)
        mx == SeqMax(series)
        rng == IF mx = mn THEN Num(1) ELSE RSub(mx, mn)
    IN  RMax(Num(0), RAdd(RMul(v, rng), mn))

EpisodeFitsOnce ==
    /\ \A i \in 0..midx :
         LET lib == EpisodeLib(Len(calls), i)
         IN  /\ Count(lib, "fit_transform") <= 1
             /\ FitComesFirst(lib)
             /\ (TrainCalledAt(i) /\ Len(request.historicalData) > sequence_length)
                  => Count(lib, "fit_transform") = 1
    /\ (handler \in {"predict", "predict_batch"} /\ pc = "forecast")
         => predictor.scaler = FittedOn(metric_data)
    /\ (handler \in {"predict", "predict_batch"} /\ ForecastIsOf(midx)
          /\ pc \in {"dates", "respond", "store"})
         => /\ predictor.scaler = FittedOn(metric_data)
            /\ \A k \in 1..Len(predictions) :
                 predictions[k] = Denormalized(OutsAt(midx)[k], metric_data)

ForecastKeepsEngine == (pc = "forecast") => predictor' = predictor

\* C19: in the life of one engine the scaler is fitted exactly once, by
\* its training (on a series long enough to be windowed), and before every
\* transform and inverse transform; the forecast step changes neither
\* scaler nor regressor, and the values it returns are denormalized with
\* the min and max of the training series.
C19_ScalerFittedOnceInTraining == []EpisodeFitsOnce /\ [][ForecastKeepsEngine]_vars

\* A forecast made on a series whose last 7 values have another minimum
\* than the whole series, with a value above 0.
C19_Witness ==
    /\ handler = "predict"
    /\ pc = "respond"
    /\ ForecastIsOf(0)
    /\ SeqMin(LastK(metric_data, 7)) # SeqMin(metric_data)
    /\ EpisodeLib(Len(calls), 0)
         = <<"fit_transform", "fit", "transform", "model.predict",
             "inverse_transform">>
    /\ RLess(Num(0), predictions[1])
----------------------------------------------------------------------------
(* SpecLife: the life of an engine instance.  A direct caller makes train  *)
(* and predict calls in any order on one instance (and may take a new      *)
(* one); the handlers serve requests of one and of two metrics.            *)

LifeRecords == {ShortLen, MinRecords}

LifeRequests ==
    { [endpoint |-> "predict", metricType |-> "pv", modelType |-> mt,
       days |-> 1, historicalData |-> HistoricalData(p, MinRecords, "plain")] :
        mt \in ModelTypes, p \in Profiles }
    \cup
    { [endpoint |-> "predict_batch", metrics |-> ms, modelType |-> mt,
       days |-> 1, historicalData |-> HistoricalData(p, n, "plain")] :
        ms \in {<<"pv", "uv">>, <<"conversion_rate", "pv">>},
        mt \in ModelTypes, p \in Profiles, n \in LifeRecords }

\* request.json of either handler
ReceiveLife ==
    /\ pc = "idle"
    /\ \E req \in LifeRequests :
         /\ request' = req
         /\ handler' = req.endpoint
    /\ pc' = "validate"
    /\ UNCHANGED <<TENSORFLOW_AVAILABLE, ret, Locals, trained_ok, calls, response,
                   parked>>

InitLife == Init \/ InitUnit

NextLife ==
    \/ UnitReturn
    \/ UnitNew
    \/ UnitTrain
    \/ UnitPredict
    \/ ReceiveLife
    \/ PredictValidate
    \/ PredictResolve
    \/ PredictCreate
    \/ PredictTrain
    \/ PredictForecast
    \/ PredictDates
    \/ PredictRespond
    \/ BatchValidate
    \/ BatchResolve
    \/ BatchCreate
    \/ BatchTrain
    \/ BatchForecast
    \/ BatchDates
    \/ BatchStore
    \/ BatchRespond
    \/ Close

SpecLife == InitLife /\ [][NextLife]_vars

\* The engine is Untrained while its model is None: predict then raises the
\* untrained-model error (app.py:135-136).
Untrained(self) == self.model = NoModel

\* A step that is a train or a predict call on the current instance.
EngineCall ==
    \/ handler = "unit" /\ pc = "ready" /\ ret'.op \in {"train", "predict"}
    \/ handler \in {"predict", "predict_batch"} /\ pc \in {"train", "forecast"}

\* No train or predict call takes the instance from Trained to Untrained.
StaysTrained ==
    (EngineCall /\ ~Untrained(predictor)) => ~Untrained(predictor')

\* An instance a train call has succeeded on is not Untrained, and predict
\* on it does not raise the untrained-model error.
TrainedIsKept ==
    /\ trained_ok => ~Untrained(predictor)
    /\ (handler = "unit" /\ ret.op = "predict" /\ trained_ok)
         => ret.raised # "UntrainedModel"

\* The handlers train an instance as __init__ left it, made by the call
\* just before, and train once at each loop position.
TrainsFreshInstance ==
    /\ (handler \in {"predict", "predict_batch"} /\ pc = "train")
         => predictor = NewPredictor(request.modelType)
    /\ \A j \in 1..Len(calls) :
         calls[j].op = "train"
            => /\ j > 1
               /\ calls[j - 1].op = "create"
               /\ calls[j - 1].at = calls[j].at
               /\ \A q \in 1..Len(calls) :
                    (calls[q].op = "train" /\ calls[q].at = calls[j].at)
                        => q = j

\* C20: the engine moves one way, Untrained to Trained: no train or predict
\* call makes a Trained instance Untrained again, whatever the order of the
\* calls; and the handlers never call train twice on one instance: every
\* train call is made on an instance created just before it.
C20_TrainedIsOneWay ==
    /\ [](TrainedIsKept /\ TrainsFreshInstance)
    /\ [][StaysTrained]_vars

\* The batch handler about to train for its second metric, after a
\* training and a forecast that succeeded for the first.
C20_Witness ==
    /\ handler = "predict_batch"
    /\ pc = "train"
    /\ midx = 1
    /\ \E j \in 1..Len(calls) :
         calls[j].op = "train" /\ calls[j].at = 0 /\ calls[j].ok
    /\ \E j \in 1..Len(calls) :
         calls[j].op = "predict" /\ calls[j].at = 0 /\ calls[j].ok

\* A direct caller's train call that failed on an instance an earlier train
\* call had succeeded on.
C20_WitnessRetrain ==
    /\ handler = "unit"
    /\ ret.op = "train"
    /\ trained_ok
    /\ ~ret.val
    /\ ~Untrained(predictor)
----------------------------------------------------------------------------
(* SpecFail: the handlers on requests whose metrics fail in every way a    *)
(* metric can fail: too few values, a value that is no number, a field no  *)
(* record has, a fit that raises, a last date that cannot be read.         *)

FailHistories ==
    { HistoricalData(p, n, "plain") : p \in Profiles, n \in {ShortLen, MinRecords} }
    \cup { HistoricalData("sample", MinRecords, sh) : sh \in {"other", "missing"} }
    \cup { <<>> }

FailRequests ==
    { [endpoint |-> "predict", metricType |-> m, modelType |-> mt,
       days |-> 1, historicalData |-> h] :
        m \in MetricNames, mt \in ModelTypes, h \in FailHistories }
    \cup
    { [endpoint |-> "predict_batch", metrics |-> ms, modelType |-> mt,
       days |-> 1, historicalData |-> h] :
        ms \in MetricLists, mt \in ModelTypes, h \in FailHistories }

\* request.json of either handler
ReceiveFail ==
    /\ pc = "idle"
    /\ \E req \in FailRequests :
         /\ request' = req
         /\ handler' = req.endpoint
    /\ pc' = "validate"
    /\ UNCHANGED <<TENSORFLOW_AVAILABLE, ret, Locals, trained_ok, calls, response,
                   parked>>

NextFail ==
    \/ ReceiveFail
    \/ PredictValidate
    \/ PredictResolve
    \/ PredictCreate
    \/ PredictTrain
    \/ PredictForecast
    \/ PredictDates
    \/ PredictRespond
    \/ BatchValidate
    \/ BatchResolve
    \/ BatchCreate
    \/ BatchTrain
    \/ BatchForecast
    \/ BatchDates
    \/ BatchStore
    \/ BatchRespond
    \/ Close

SpecFail == Init /\ [][NextFail]_vars

\* The train call made at loop position i returned False.
TrainFailedAt(i) ==
    \E j \in 1..Len(calls) :
        calls[j].op = "train" /\ calls[j].at = i /\ ~calls[j].ok

\* The number of calls of the log that satisfy Test.
CallCount(Test(_)) == Cardinality({ j \in 1..Len(calls) : Test(calls[j]) })

\* After a failed train at a loop position: that one train call and no
\* predict call at the position; /predict has answered 500 with the fixed
\* message, /predict/batch has left the position.
FailedTrainEndsTheMetric ==
    \A i \in 0..Len(calls) :
        TrainFailedAt(i)
            => /\ LET IsTrain(c) == c.op = "train" /\ c.at = i
                       IsPredict(c) == c.op = "predict" /\ c.at = i
                   IN  CallCount(IsTrain) = 1 /\ CallCount(IsPredict) = 0
               /\ handler = "predict"
                    => /\ pc = "done"
                       /\ response = [status |-> 500,
                                       body |-> [success |-> FALSE,
                                                 error |-> "TrainingFailed"]]
               /\ handler = "predict_batch" => midx > i

\* The step on which train returns False in the batch loop goes to the
\* next metric and stores nothing.
FailedTrainMovesOn ==
    (handler = "predict_batch" /\ pc = "train"
        /\ ~calls'[Len(calls')].ok)
        => /\ midx' = midx + 1
           /\ pc' = "loop"
           /\ results' = results

\* A response, once given, is not given again or changed.
AnswersOnce ==
    (response # NoResponse) => (response' = response \/ response' = NoResponse)

\* C21: when train returns False the handler makes no predict call on that
\* predictor and no second train call: /predict answers once, with HTTP
\* 500, success = false and the fixed training-failed message; the batch
\* loop goes on to the next metric after exactly one train call for the
\* failed one.
C21_FailedTrainIsFinal ==
    /\ []FailedTrainEndsTheMetric
    /\ [][FailedTrainMovesOn /\ AnswersOnce]_vars

\* /predict answered 500 after a train call in which the regressor's fit
\* raised.
C21_Witness ==
    /\ handler = "predict"
    /\ pc = "done"
    /\ Len(calls) = 2
    /\ calls[2].op = "train"
    /\ calls[2].fit = "raise"
    /\ ~calls[2].ok
    /\ response.status = 500
    /\ response.body.error = "TrainingFailed"

\* A batch of two metrics where train failed for the first and the second
\* was trained and forecast.
C21_WitnessBatch ==
    /\ handler = "predict_batch"
    /\ pc = "done"
    /\ Len(request.metrics) = 2
    /\ TrainFailedAt(0)
    /\ \E j \in 1..Len(calls) :
         calls[j].op = "predict" /\ calls[j].at = 1 /\ calls[j].ok
----------------------------------------------------------------------------
(* SpecDerive: the conversion rate derived for requests of both handlers,  *)
(* and calculate_conversion_rate called directly on any two lists.         *)

DeriveCounts == {1, ShortLen, MinRecords}

DeriveRequests ==
    { [endpoint |-> "predict", metricType |-> m, modelType |-> "lstm",
       days |-> 1, historicalData |-> HistoricalData(p, MinRecords, "plain")] :
        m \in {"conversion_rate", "uv"}, p \in Profiles }
    \cup
    { [endpoint |-> "predict_batch", metrics |-> ms, modelType |-> "lstm",
       days |-> 1, historicalData |-> HistoricalData(p, n, "plain")] :
        ms \in {<<"conversion_rate">>, <<"uv", "conversion_rate">>,
                <<"conversion_rate", "conversion_rate">>},
        p \in Profiles, n \in DeriveCounts }

\* request.json of either handler
ReceiveDerive ==
    /\ handler = "idle" /\ pc = "idle"
    /\ \E req \in DeriveRequests :
         /\ request' = req
         /\ handler' = req.endpoint
    /\ pc' = "validate"
    /\ UNCHANGED <<TENSORFLOW_AVAILABLE, ret, Locals, trained_ok, calls, response,
                   parked>>

InitDerive == Init \/ InitRate

NextDerive ==
    \/ UnitReturn
    \/ UnitConversionRate
    \/ ReceiveDerive
    \/ PredictValidate
    \/ PredictResolve
    \/ PredictCreate
    \/ PredictTrain
    \/ PredictForecast
    \/ PredictDates
    \/ PredictRespond
    \/ BatchValidate
    \/ BatchResolve
    \/ BatchCreate
    \/ BatchTrain
    \/ BatchForecast
    \/ BatchDates
    \/ BatchStore
    \/ BatchRespond
    \/ Close

SpecDerive == InitDerive /\ [][NextDerive]_vars

\* The metric the handler is working on.
CurrentMetric ==
    IF handler = "predict" THEN request.metricType
    ELSE IF handler = "predict_batch" /\ midx < Len(request.metrics) THEN metric
    ELSE "none"

\* The handler is about to derive the conversion rate.
DerivationAhead ==
    /\ CurrentMetric = "conversion_rate"
    /\ \/ handler = "predict" /\ pc = "resolve"
       \/ handler = "predict_batch" /\ pc = "loop"

\* The handler has derived the conversion rate and works on it.
DerivationDone ==
    /\ CurrentMetric = "conversion_rate"
    /\ pc \in {"create", "train", "forecast", "dates", "store", "respond"}

\* What the handlers hand to the derivation has the length of the record
\* list on both sides, the derivation does not raise the length error, and
\* a record without pv or without uv counts as a day of rate 0.
EndpointsDeriveFromOneList ==
    LET h == request.historicalData
    IN  /\ DerivationAhead
             => /\ Len(FieldList(h, "pv")) = Len(h)
                /\ Len(FieldList(h, "uv")) = Len(h)
                /\ MetricSeries("conversion_rate", h).raised # "LengthMismatch"
        /\ DerivationDone
             => /\ Len(metric_data) = Len(h)
                /\ \A i \in 1..Len(h) :
                     ("pv" \notin DOMAIN h[i] \/ "uv" \notin DOMAIN h[i])
                        => metric_data[i] = Num(0)
        /\ (handler \in {"predict", "predict_batch"} /\ pc = "done"
              /\ ~response.body.success)
             => response.body.error # "LengthMismatch"

\* A direct call raises the length error exactly on lists of two lengths.
DirectCallMismatch ==
    (handler = "unit" /\ ret.op = "conversion_rate")
        => (ret.raised = "LengthMismatch" <=> Len(ret.pv) # Len(ret.uv))

\* C22: in both handlers the pv and uv lists given to the derivation come
\* from the same record list, a missing field counting as 0, so they have
\* the same length and no request makes the derivation raise the length
\* error; a direct call with lists of two lengths does raise it.
C22_RequestsNeverMismatch ==
    EndpointsDeriveFromOneList /\ DirectCallMismatch

\* /predict working on a conversion rate derived from records some of which
\* have no uv field.
C22_Witness ==
    /\ handler = "predict"
    /\ pc = "create"
    /\ request.metricType = "conversion_rate"
    /\ \E i \in 1..Len(request.historicalData) :
         /\ "uv" \notin DOMAIN request.historicalData[i]
         /\ RLess(Num(0), request.historicalData[i]["pv"])
    /\ \E i \in 1..Len(metric_data) : RLess(Num(0), metric_data[i])

\* A direct call on lists of two lengths raised the length error.
C22_WitnessDirect ==
    /\ handler = "unit"
    /\ ret.op = "conversion_rate"
    /\ Len(ret.pv) # Len(ret.uv)
    /\ ret.raised = "LengthMismatch"

\* The statements of predict_batch after the request is read.
BatchSteps ==
    \/ BatchValidate
    \/ BatchResolve
    \/ BatchCreate
    \/ BatchTrain
    \/ BatchForecast
    \/ BatchDates
    \/ BatchStore
    \/ BatchRespond

\* predict_batch has a statement to execute.  This is the condition under
\* which BatchSteps is enabled: every statement is guarded by its stage
\* alone (the loop by midx <= len(metrics), which always holds), and the
\* engine's methods are defined on every predictor and series.
BatchRunning ==
    /\ handler = "predict_batch"
    /\ pc \in {"validate", "loop", "create", "train", "forecast", "dates",
               "store"}

\* SpecFail with weak fairness of BatchSteps, WF_vars(BatchSteps), with
\* ENABLED <<BatchSteps>>_vars written out as BatchRunning: the handler
\* runs its statements one after the other and each library call returns.
SpecFailFair ==
    SpecFail /\ ([]<>(~BatchRunning) \/ []<><<BatchSteps>>_vars)

\* A batch request with records to work on.
BatchWithRecords ==
    handler = "predict_batch" /\ Len(request.historicalData) > 0

\* No response before the loop is over, then 200 with success = true and
\* the results of the loop; results has requested metrics as keys only.
BatchAnswers200 ==
    BatchWithRecords
        => /\ DOMAIN results \subseteq Requested
           /\ midx <= Len(request.metrics)
           /\ pc # "done" => response = NoResponse
           /\ pc = "done"
                => /\ midx = Len(request.metrics)
                   /\ response.status = 200
                   /\ response.body.success = TRUE
                   /\ response.body.results = results

\* C23: a batch request with a non-empty record list and a list of metric
\* names always comes to its response, which is HTTP 200 with success =
\* true, also when every metric failed; no failure of a metric gives an
\* error status, and results has no key that was not requested.
C23_BatchAlwaysAnswers200 ==
    /\ []BatchAnswers200
    /\ (BatchWithRecords ~> (BatchWithRecords /\ pc = "done"))

\* A 200 response to two different metrics that both failed: both null.
C23_Witness ==
    /\ BatchWithRecords
    /\ pc = "done"
    /\ response.status = 200
    /\ Len(request.metrics) = 2
    /\ request.metrics[1] # request.metrics[2]
    /\ DOMAIN response.body.results = Requested
    /\ \A m \in Requested : response.body.results[m].null

\* A 200 response with empty results to two metrics whose training failed.
C23_WitnessEmpty ==
    /\ BatchWithRecords
    /\ pc = "done"
    /\ response.status = 200
    /\ Len(request.metrics) = 2
    /\ TrainFailedAt(0)
    /\ TrainFailedAt(1)
    /\ response.body.results = <<>>
====
